---- MODULE Spec2Model ----
(***************************************************************************)
(* A model of the MDX model engine of War3BatchModelPreviewerQt:           *)
(*   - the chunked binary loader     (src/src/MdxLoader.cpp),              *)
(*   - the keyframe track sampler    (src/src/GLModelView.cpp),            *)
(*   - the node transform evaluator  (src/src/GLModelView.cpp),            *)
(*   - the vertex skinning step      (src/src/GLModelView.cpp),            *)
(*   - the particle emitters         (src/src/GLModelView.cpp).            *)
(* The loader works on a byte buffer exactly as the code does: every       *)
(* reader operation below is the operation of struct Reader, and the       *)
(* sub-parsers are translated statement by statement.  32-bit fields of    *)
(* the inputs are kept below 2^31 so that no sum leaves the integers the   *)
(* checker computes with; qsizetype is 64 bits wide, so the code's cursor  *)
(* arithmetic does not wrap on those inputs either.                        *)
(***************************************************************************)
EXTENDS Integers, Sequences, FiniteSets, TLC

VARIABLES
    bytes,      \* LoadFromBytes: the input buffer (bytes.constData(), bytes.size())
    build,      \* "debug" (Q_ASSERT checks), "release" (QT_NO_DEBUG: Q_ASSERT is a
                \* no-op), "unknown" while no Q_ASSERT has told them apart
    pc,         \* position of LoadFromBytes: start, chunks, post, done, failed, aborted
    rpos,       \* LoadFromBytes: r.pos of the outer Reader
    model,      \* LoadFromBytes: ModelData model being built
    outError,   \* *outError: NoError until setErr assigns it
    lastChunk   \* the chunk the loop handled last: [tag, start, size, consumed
                \* (the branch's cursor), status, errSet (the branch called setErr)]

VARIABLES
    trackType,  \* sampleTrack*: the T of MdxTrack<T>: "float", "Vec3" or "Vec4"
    track,      \* sampleTrack*: the track tr, [interp, globalSeqId, keys]
    seqLens,    \* sampleTrack*: model.globalSequencesMs
    timeMs,     \* sampleTrack*: the query time
    sampled,    \* the value sampleTrack* returned
    sampleDone  \* whether sampleTrack* has returned

VARIABLES
    model_,       \* the view's document: [nodes, globalSequencesMs]
    globalTimeMs, \* buildNodeWorldCached: its argument
    evalPc,       \* "idle" outside buildNodeWorldCached, "loop" inside
    state,        \* buildNodeWorldCached: std::vector<int> state
    stack,        \* the active calls of buildNode, innermost first: [idx, at]
    loopI,        \* buildNodeWorldCached: i of the final loop
    nodeWorld,    \* per node [Mat, Loc, InvLoc, Rot, InvRot, Scale, InvScale]:
                  \* nodeWorldMat_, nodeWorldLoc_, nodeInvWorldLoc_, nodeWorldRot_,
                  \* nodeInvWorldRot_, nodeWorldScale_, nodeInvWorldScale_
    bodyCount,    \* history: per node, how often this evaluation ran its body
    evalCount,    \* history: the evaluations started
    seen          \* history: per query time, the matrices the first evaluation
                  \* at that time returned

VARIABLES
    viewPc,           \* the handler of the view that has called
                      \* buildNodeWorldCached and waits for it: "idle" when none
    vbo_,             \* GLuint vbo_: 0 until the mesh has been uploaded
    skinnedVertices_, \* std::vector<ModelVertex> skinnedVertices_
    skinCount         \* history: the skinning passes updateSkinning has finished

VARIABLES
    playbackSpeed_,        \* float playbackSpeed_
    localTimeMs_,          \* std::uint32_t localTimeMs_
    lastGlobalTimeMs_,     \* std::uint32_t lastGlobalTimeMs_
    currentSeq_,           \* int currentSeq_
    forceParticleVisible_, \* bool forceParticleVisible_
    runtimeEmitters2_,     \* per emitter [spawnAccum, particles]; particles is
                           \* the vector in its order, written as runs: a run
                           \* [id, n, age, life] is n neighbours that one tick
                           \* pushed, id the serial number of the first of them
    dtSeconds,             \* updateEmitters: its argument
    tickLog,               \* history: the dtSeconds of the ticks finished
    emitLog                \* history: per emitter, what the ticks did to it

VARIABLES
    drawEmitter,      \* drawParticles: the emitter e it is drawing
    drawParticle,     \* drawParticles: the particle p of the loop
    drawn             \* history: the frames handed to setupUv for p

VARIABLES
    modelCache_,      \* QHash modelCache_: the paths it has a model for
    loadToken_,       \* int loadToken_
    modelWatcher_,    \* QFutureWatcher modelWatcher_: the future it watches,
                      \* [path, token, status]; status is "none" before the
                      \* first setFuture, "running" while LoadModelFile runs,
                      \* "finished" once its result is there and the signal
                      \* is queued, "delivered" after onModelLoadFinished
    shown,            \* the path viewer_->setModel was last called with and
                      \* whether it was given a model
    discarded,        \* background loads still running whose future the
                      \* watcher no longer watches
    selections        \* history: the paths selected, in order

VARIABLES
    sizeBits,         \* the width of qsizetype in the build: that of size_t
    readers,          \* the Readers in use, innermost first: [base, size, pos,
                      \* kind]; data = bytes.constData() + base
    readerPc,         \* "idle", "run", "done" (the chunk loop has ended),
                      \* "failed" (a sub-parser returned false)
    lastRead,         \* history: the bytes data[..] last read, as offsets
                      \* lo <= .. < hi in the file, and the ranges of the
                      \* Readers in use at that read
    opCount           \* history: the reader operations so far

loadVars == <<bytes, build, pc, rpos, model, outError, lastChunk>>
sampleVars == <<trackType, track, seqLens, timeMs, sampled, sampleDone>>
evalVars == <<model_, globalTimeMs, evalPc, state, stack, loopI, nodeWorld,
              bodyCount, evalCount, seen>>
skinVars == <<viewPc, vbo_, skinnedVertices_, skinCount>>
emitVars == <<playbackSpeed_, localTimeMs_, lastGlobalTimeMs_, currentSeq_, forceParticleVisible_,
              runtimeEmitters2_, dtSeconds, tickLog, emitLog>>
drawVars == <<drawEmitter, drawParticle, drawn>>
windowVars == <<modelCache_, loadToken_, modelWatcher_, shown, discarded, selections>>
readerVars == <<sizeBits, readers, readerPc, lastRead, opCount>>
hostVars == <<drawVars, windowVars, readerVars>>
viewVars == <<skinVars, emitVars, hostVars>>
vars == <<loadVars, sampleVars, evalVars, viewVars>>

\* No track is being sampled
SampleIdle ==
    /\ trackType = "float"
    /\ track = [interp |-> 0, globalSeqId |-> -1, keys |-> <<>>]
    /\ timeMs = 0
    /\ sampled = <<>>
    /\ sampleDone = TRUE

\* The view has no model: buildNodeWorldCached returns at once
EvalIdle ==
    /\ model_ = [nodes |-> <<>>, globalSequencesMs |-> <<>>]
    /\ globalTimeMs = 0
    /\ evalPc = "idle"
    /\ state = <<>>
    /\ stack = <<>>
    /\ loopI = 0
    /\ nodeWorld = <<>>
    /\ bodyCount = <<>>
    /\ evalCount = 0
    /\ seen = <<>>

\* The animation clock and the emitters of a view without a model
EmitIdle ==
    /\ playbackSpeed_ = <<1, 1>>
    /\ localTimeMs_ = 0
    /\ lastGlobalTimeMs_ = 0
    /\ currentSeq_ = 0
    /\ forceParticleVisible_ = FALSE
    /\ runtimeEmitters2_ = <<>>
    /\ dtSeconds = <<0, 1>>
    /\ tickLog = <<>>
    /\ emitLog = <<>>

\* Nothing is being drawn
DrawIdle ==
    /\ drawEmitter = <<>>
    /\ drawParticle = <<>>
    /\ drawn = <<>>

\* The main window after its construction: nothing selected yet
WindowIdle ==
    /\ modelCache_ = {}
    /\ loadToken_ = 0
    /\ modelWatcher_ = [path |-> "", token |-> 0, status |-> "none"]
    /\ shown = [path |-> "", loaded |-> FALSE]
    /\ discarded = 0
    /\ selections = <<>>

\* No file is being read
NoRead == [set |-> FALSE, lo |-> 0, hi |-> 0, within |-> <<>>]
ReaderIdle ==
    /\ sizeBits = 64
    /\ readers = <<>>
    /\ readerPc = "idle"
    /\ lastRead = NoRead
    /\ opCount = 0

\* What surrounds the engine is at rest
HostIdle == DrawIdle /\ WindowIdle /\ ReaderIdle

\* No handler of the view is running: the state setModel leaves
ViewIdle ==
    /\ viewPc = "idle"
    /\ vbo_ = 0
    /\ skinnedVertices_ = <<>>
    /\ skinCount = 0
    /\ EmitIdle
    /\ HostIdle

----------------------------------------------------------------------------
(* Bytes, tags and the Reader                                              *)

\* *outError: whether setErr has assigned it, and the message
NoError == [set |-> FALSE, msg |-> "", arg |-> ""]
setErr(msg, arg) == [set |-> TRUE, msg |-> msg, arg |-> arg]
NoChunk ==
    [tag |-> <<>>, start |-> 0, size |-> 0, consumed |-> 0, status |-> "none",
     errSet |-> FALSE]

TagMDLX == <<77, 68, 76, 88>>
TagVERS == <<86, 69, 82, 83>>
TagTEXS == <<84, 69, 88, 83>>
TagMTLS == <<77, 84, 76, 83>>
TagGEOS == <<71, 69, 79, 83>>
TagSEQS == <<83, 69, 81, 83>>
TagGLBS == <<71, 76, 66, 83>>
TagBONE == <<66, 79, 78, 69>>
TagHELP == <<72, 69, 76, 80>>
TagLITE == <<76, 73, 84, 69>>
TagATCH == <<65, 84, 67, 72>>
TagPREM == <<80, 82, 69, 77>>
TagRIBB == <<82, 73, 66, 66>>
TagEVTS == <<69, 86, 84, 83>>
TagCLID == <<67, 76, 73, 68>>
TagPIVT == <<80, 73, 86, 84>>
TagPRE2 == <<80, 82, 69, 50>>
TagLAYS == <<76, 65, 89, 83>>
TagVRTX == <<86, 82, 84, 88>>
TagNRMS == <<78, 82, 77, 83>>
TagPTYP == <<80, 84, 89, 80>>
TagPCNT == <<80, 67, 78, 84>>
TagPVTX == <<80, 86, 84, 88>>
TagGNDX == <<71, 78, 68, 88>>
TagMTGC == <<77, 84, 71, 67>>
TagMATS == <<77, 65, 84, 83>>
TagUVAS == <<85, 86, 65, 83>>
TagUVBS == <<85, 86, 66, 83>>
TagTANG == <<84, 65, 78, 71>>
TagSKIN == <<83, 75, 73, 78>>
TagKGTR == <<75, 71, 84, 82>>
TagKGRT == <<75, 71, 82, 84>>
TagKGSC == <<75, 71, 83, 67>>
TagXXXX == <<88, 88, 88, 88>>

\* data[off] of the outer buffer
ByteAt(off) == bytes[off + 1]

\* A Reader is [base, size, pos]: data = bytes.constData() + base.
MkReader(base, size, pos) == [base |-> base, size |-> size, pos |-> pos]

canRead(r, n) == r.pos + n <= r.size

Advance(r, n) == [r EXCEPT !.pos = @ + n]

U16At(off) == ByteAt(off) + 256 * ByteAt(off + 1)

U32At(off) ==
    ByteAt(off) + 256 * ByteAt(off + 1) + 65536 * ByteAt(off + 2)
        + 16777216 * ByteAt(off + 3)

\* qint32(u): the same four bytes read as a two's complement number
I32At(off) ==
    ByteAt(off) + 256 * ByteAt(off + 1) + 65536 * ByteAt(off + 2)
        + 16777216 * (IF ByteAt(off + 3) >= 128 THEN ByteAt(off + 3) - 256
                                                ELSE ByteAt(off + 3))

TagAt(off) == <<ByteAt(off), ByteAt(off + 1), ByteAt(off + 2), ByteAt(off + 3)>>

readU16(r) ==
    IF ~canRead(r, 2) THEN [ok |-> FALSE, v |-> 0, r |-> r]
    ELSE [ok |-> TRUE, v |-> U16At(r.base + r.pos), r |-> Advance(r, 2)]

readU32(r) ==
    IF ~canRead(r, 4) THEN [ok |-> FALSE, v |-> 0, r |-> r]
    ELSE [ok |-> TRUE, v |-> U32At(r.base + r.pos), r |-> Advance(r, 4)]

readI32(r) ==
    IF ~canRead(r, 4) THEN [ok |-> FALSE, v |-> 0, r |-> r]
    ELSE [ok |-> TRUE, v |-> I32At(r.base + r.pos), r |-> Advance(r, 4)]

readTag(r) ==
    IF ~canRead(r, 4) THEN [ok |-> FALSE, v |-> <<0, 0, 0, 0>>, r |-> r]
    ELSE [ok |-> TRUE, v |-> TagAt(r.base + r.pos), r |-> Advance(r, 4)]

peekTag(r) ==
    IF r.pos + 4 > r.size THEN [ok |-> FALSE, v |-> <<0, 0, 0, 0>>]
    ELSE [ok |-> TRUE, v |-> TagAt(r.base + r.pos)]

skip(r, n) ==
    IF ~canRead(r, n) THEN [ok |-> FALSE, r |-> r]
    ELSE [ok |-> TRUE, r |-> Advance(r, n)]

Min(a, b) == IF a <= b THEN a ELSE b
Max(a, b) == IF a >= b THEN a ELSE b

\* n consecutive little-endian values starting at the reader's position
U32List(r, n) == [i \in 1..n |-> U32At(r.base + r.pos + 4 * (i - 1))]
I32List(r, n) == [i \in 1..n |-> I32At(r.base + r.pos + 4 * (i - 1))]
U16List(r, n) == [i \in 1..n |-> U16At(r.base + r.pos + 2 * (i - 1))]
U8List(r, n)  == [i \in 1..n |-> ByteAt(r.base + r.pos + (i - 1))]

readArrayTagCount(r, expected, name) ==
    LET t == readTag(r) IN
    IF ~t.ok THEN
        [ok |-> FALSE, count |-> 0, r |-> r,
         err |-> setErr("Unexpected EOF reading tag for %1", name)]
    ELSE IF t.v # expected THEN
        [ok |-> FALSE, count |-> 0, r |-> t.r,
         err |-> setErr("Expected tag '%1' but got another", name)]
    ELSE LET c == readU32(t.r) IN
        IF ~c.ok THEN
            [ok |-> FALSE, count |-> 0, r |-> t.r,
             err |-> setErr("Unexpected EOF reading count for %1", name)]
        ELSE [ok |-> TRUE, count |-> c.v, r |-> c.r, err |-> NoError]

----------------------------------------------------------------------------
(* Primitive groups to triangles                                            *)

indexCountToPrimitiveCount(d3dPrimitiveType, indexCount) ==
    CASE d3dPrimitiveType = 4 -> indexCount \div 3
      [] d3dPrimitiveType \in {5, 6} ->
            IF indexCount >= 2 THEN indexCount - 2 ELSE 0
      [] d3dPrimitiveType = 7 -> indexCount \div 4
      [] OTHER -> 0

\* A triangle list with the winding turned round
RECURSIVE TriList_Reversed(_, _, _, _, _)
TriList_Reversed(t, primCount, src, start, baseVertex) ==
    IF t >= primCount \/ start + t * 3 + 2 >= Len(src) THEN <<>>
    ELSE <<baseVertex + src[start + t * 3 + 1],
           baseVertex + src[start + t * 3 + 3],
           baseVertex + src[start + t * 3 + 2]>>
         \o TriList_Reversed(t + 1, primCount, src, start, baseVertex)

\* srcIndices[i] of the code is src[i + 1] here
RECURSIVE TriList(_, _, _, _, _)
TriList(t, primCount, src, start, baseVertex) ==
    IF t >= primCount \/ start + t * 3 + 2 >= Len(src) THEN <<>>
    ELSE <<baseVertex + src[start + t * 3 + 1],
           baseVertex + src[start + t * 3 + 2],
           baseVertex + src[start + t * 3 + 3]>>
         \o TriList(t + 1, primCount, src, start, baseVertex)

RECURSIVE TriStrip(_, _, _, _, _)
TriStrip(t, primCount, src, start, baseVertex) ==
    IF t >= primCount \/ start + t + 2 >= Len(src) THEN <<>>
    ELSE LET a == baseVertex + src[start + t + 1]
             b == baseVertex + src[start + t + 2]
             c == baseVertex + src[start + t + 3]
         IN (IF t % 2 = 0 THEN <<a, b, c>> ELSE <<b, a, c>>)
            \o TriStrip(t + 1, primCount, src, start, baseVertex)

RECURSIVE TriFan(_, _, _, _, _)
TriFan(t, primCount, src, start, baseVertex) ==
    IF t >= primCount \/ start + t + 2 >= Len(src) THEN <<>>
    ELSE <<baseVertex + src[start + 1],
           baseVertex + src[start + t + 2],
           baseVertex + src[start + t + 3]>>
         \o TriFan(t + 1, primCount, src, start, baseVertex)

RECURSIVE QuadList(_, _, _, _, _)
QuadList(q, primCount, src, start, baseVertex) ==
    IF q >= primCount \/ start + q * 4 + 3 >= Len(src) THEN <<>>
    ELSE LET a == baseVertex + src[start + q * 4 + 1]
             b == baseVertex + src[start + q * 4 + 2]
             c == baseVertex + src[start + q * 4 + 3]
             d == baseVertex + src[start + q * 4 + 4]
         IN <<a, b, c, a, c, d>>
            \o QuadList(q + 1, primCount, src, start, baseVertex)

\* the triangles appended to outTriIndices
appendTrianglesFromPrimitive(type, primCount, srcIndices, start, baseVertex) ==
    IF primCount = 0 THEN <<>>
    ELSE CASE type = 4 -> TriList(0, primCount, srcIndices, start, baseVertex)
           [] type = 5 -> TriStrip(0, primCount, srcIndices, start, baseVertex)
           [] type = 6 ->
                IF start + 2 >= Len(srcIndices) THEN <<>>
                ELSE TriFan(0, primCount, srcIndices, start, baseVertex)
           [] type = 7 -> QuadList(0, primCount, srcIndices, start, baseVertex)
           [] OTHER -> <<>>

\* parseGeoset, "Convert primitives to triangle list"
RECURSIVE ConvertPrimitives(_, _, _, _, _, _)
ConvertPrimitives(g, groups, faceTypeGroups, faceGroups, faces, cursor) ==
    IF g >= groups THEN <<>>
    ELSE LET type == faceTypeGroups[g + 1]
             idxCount == faceGroups[g + 1]
             primCount == indexCountToPrimitiveCount(type, idxCount)
         IN IF idxCount = 0 THEN
                ConvertPrimitives(g + 1, groups, faceTypeGroups, faceGroups,
                                  faces, cursor)
            ELSE IF cursor + idxCount > Len(faces) THEN <<>>
            ELSE (IF primCount > 0
                  THEN appendTrianglesFromPrimitive(type, primCount, faces, cursor, 0)
                  ELSE <<>>)
                 \o ConvertPrimitives(g + 1, groups, faceTypeGroups, faceGroups,
                                      faces, cursor + idxCount)

----------------------------------------------------------------------------
(* parseGeoset                                                              *)

\* GeosetParsed; a vertex keeps its position (the raw bits of px, py, pz).
\* Normals and texture coordinates are read past but not kept, and the
\* diagnostics copies (gndxRaw, mtgcRaw, matsRaw, expandedGroups) are left out.
EmptyGeoset ==
    [vertices |-> <<>>, triIndices |-> <<>>, materialId |-> 0,
     vertexGroups |-> <<>>, groups |-> <<>>]

\* A result of parseGeoset: status "ok", "fail" (return false, err set) or
\* "assert" (a Q_ASSERT of a debug build failed: the process aborts).
\* asserted: a Q_ASSERT condition of the geoset was false.
GeosetResult(status, err, out) ==
    [status |-> status, err |-> err, out |-> out, asserted |-> FALSE]
\* A variant of GeosetFail that returns false without calling setErr
GeosetFail_Silent(msg) == GeosetResult("fail", NoError, EmptyGeoset)
GeosetFail(msg) == GeosetResult("fail", setErr(msg, ""), EmptyGeoset)

\* One tagged array: tag, count, count elements of elemSize bytes.
\* [ok, err, count, at (reader at the first element), r (reader after)]
readTaggedArray(r, tag, name, elemSize, eofMsg) ==
    LET h == readArrayTagCount(r, tag, name) IN
    IF ~h.ok THEN [ok |-> FALSE, err |-> h.err, count |-> 0, at |-> h.r, r |-> h.r]
    ELSE IF ~canRead(h.r, elemSize * h.count) THEN
        [ok |-> FALSE, err |-> setErr(eofMsg, ""), count |-> h.count,
         at |-> h.r, r |-> h.r]
    ELSE [ok |-> TRUE, err |-> NoError, count |-> h.count, at |-> h.r,
          r |-> Advance(h.r, elemSize * h.count)]

\* "while (groupIndex < matrixGroupCount && remaining == 0)"
RECURSIVE NextGroup(_, _, _)
NextGroup(groupIndex, remaining, groupSizes) ==
    IF groupIndex < Len(groupSizes) /\ remaining = 0 THEN
        LET gi == groupIndex + 1 IN
        NextGroup(gi, IF gi < Len(groupSizes) THEN groupSizes[gi + 1] ELSE 0,
                  groupSizes)
    ELSE [groupIndex |-> groupIndex, remaining |-> remaining]

\* The MATS loop: node indices dealt to out.groups by the MTGC sizes
RECURSIVE AssignMats(_, _, _, _, _, _)
AssignMats(i, mats, groupSizes, groupIndex, remaining, groups) ==
    IF i > Len(mats) THEN groups
    ELSE LET st == NextGroup(groupIndex, remaining, groupSizes) IN
         IF st.groupIndex < Len(groups) THEN
            AssignMats(i + 1, mats, groupSizes, st.groupIndex,
                       IF st.remaining > 0 THEN st.remaining - 1 ELSE st.remaining,
                       [groups EXCEPT ![st.groupIndex + 1] = Append(@, mats[i])])
         ELSE AssignMats(i + 1, mats, groupSizes, st.groupIndex, st.remaining,
                         groups)

\* "optional tangents/skin chunks could appear here"
RECURSIVE SkipTangSkin(_)
SkipTangSkin(gs) ==
    LET p == peekTag(gs) IN
    IF p.ok /\ p.v \in {TagTANG, TagSKIN} THEN
        LET t == readTag(gs)
            s == readU32(t.r)
        IN IF ~s.ok THEN t.r
           ELSE LET k == skip(s.r, s.v) IN
                IF ~k.ok THEN s.r ELSE SkipTangSkin(k.r)
    ELSE gs

\* The UVAS sets, each a UVBS array of (u, v) pairs
RECURSIVE ReadUvSets(_, _, _, _)
ReadUvSets(s, uvSetCount, gs, vertexCount) ==
    IF s >= uvSetCount THEN [ok |-> TRUE, err |-> NoError, r |-> gs]
    ELSE LET h == readArrayTagCount(gs, TagUVBS, "UVBS") IN
         IF ~h.ok THEN [ok |-> FALSE, err |-> h.err, r |-> h.r]
         ELSE LET pairsToRead == Min(h.count, vertexCount) IN
              IF ~canRead(h.r, 8 * pairsToRead) THEN
                 [ok |-> FALSE, err |-> setErr("Unexpected EOF reading UVBS.", ""),
                  r |-> h.r]
              ELSE LET r1 == Advance(h.r, 8 * pairsToRead)
                       extraPairs == h.count - pairsToRead
                   IN IF h.count > pairsToRead /\ ~canRead(r1, extraPairs * 8) THEN
                         [ok |-> FALSE,
                          err |-> setErr("Unexpected EOF skipping extra UVs.", ""),
                          r |-> r1]
                      ELSE ReadUvSets(s + 1, uvSetCount,
                                      Advance(r1, extraPairs * 8), vertexCount)

\* The stages of parseGeoset follow, the last one first.  g is the geoset
\* read so far: [vertices, faceTypeGroups, faceGroups, faces, vertexGroups,
\* groupSizes, groups, materialId].

\* "Convert primitives to triangle list" and "return true"
geosetTriangles(sets, g) ==
    IF ~sets.ok THEN GeosetResult("fail", sets.err, EmptyGeoset)
    ELSE GeosetResult("ok", NoError,
            [vertices |-> g.vertices,
             triIndices |-> ConvertPrimitives(0, Min(Len(g.faceTypeGroups),
                                                     Len(g.faceGroups)),
                                              g.faceTypeGroups, g.faceGroups,
                                              g.faces, 0),
             materialId |-> g.materialId,
             vertexGroups |-> g.vertexGroups,
             groups |-> g.groups])

\* uv is the UVAS header
geosetUVAS(uv, g) ==
    IF ~uv.ok THEN GeosetResult("fail", uv.err, EmptyGeoset)
    ELSE geosetTriangles(ReadUvSets(0, uv.count, uv.r, Len(g.vertices)), g)

\* gs stands after the extents: "if (mdxVersion > 800)"
geosetLOD(gs, mdxVersion, g) ==
    IF mdxVersion > 800 /\ ~canRead(gs, 4 + 80) THEN
        GeosetFail("Unexpected EOF skipping LOD fields.")
    ELSE geosetUVAS(readArrayTagCount(IF mdxVersion > 800
                                      THEN SkipTangSkin(Advance(gs, 4 + 80))
                                      ELSE gs, TagUVAS, "UVAS"), g)

\* ec is the read of extentsCount
geosetExtents(ec, mdxVersion, g) ==
    IF ~ec.ok THEN GeosetFail("Unexpected EOF reading extents count.")
    ELSE IF ~canRead(ec.r, ec.v * 28) THEN
        GeosetFail("Unexpected EOF skipping extents.")
    ELSE geosetLOD(Advance(ec.r, ec.v * 28), mdxVersion, g)

\* "Fixed fields": gs stands after MATS
GeosetTail(gs, mdxVersion, g) ==
    IF ~canRead(gs, 12) THEN
        GeosetFail("Unexpected EOF reading geoset header fields.")
    ELSE IF ~canRead(Advance(gs, 12), 28) THEN
        GeosetFail("Unexpected EOF skipping extent.")
    ELSE geosetExtents(readU32(Advance(gs, 12 + 28)), mdxVersion,
                       [g EXCEPT !.materialId = U32At(gs.base + gs.pos)])

\* "Q_ASSERT(vg < groupSizes.size())" for every vertex group id, when
\* MTGC is not empty
VertexGroupAssertHolds(vertexGroups, groupSizes) ==
    groupSizes # <<>> =>
        \A i \in 1..Len(vertexGroups) : vertexGroups[i] < Len(groupSizes)

\* mats is the MATS array; the Q_ASSERT stands before it
geosetMATS(mats, mdxVersion, assertsOn, g, holds) ==
    IF assertsOn /\ ~holds THEN
        [GeosetResult("assert", NoError, EmptyGeoset) EXCEPT !.asserted = TRUE]
    ELSE IF ~mats.ok THEN
        [GeosetResult("fail", mats.err, EmptyGeoset) EXCEPT !.asserted = ~holds]
    ELSE [GeosetTail(mats.r, mdxVersion,
                     [g EXCEPT !.groups =
                         AssignMats(1, I32List(mats.at, mats.count), g.groupSizes, 0,
                                    IF Len(g.groupSizes) > 0 THEN g.groupSizes[1]
                                                             ELSE 0,
                                    [i \in 1..Len(g.groupSizes) |-> <<>>])])
          EXCEPT !.asserted = ~holds]

geosetGroupSizes(r, mdxVersion, assertsOn, g) ==
    geosetMATS(readTaggedArray(r, TagMATS, "MATS", 4, "Unexpected EOF reading MATS."),
               mdxVersion, assertsOn, g,
               VertexGroupAssertHolds(g.vertexGroups, g.groupSizes))

geosetMTGC(mtgc, mdxVersion, assertsOn, g) ==
    IF ~mtgc.ok THEN GeosetResult("fail", mtgc.err, EmptyGeoset)
    ELSE geosetGroupSizes(mtgc.r, mdxVersion, assertsOn,
                          [g EXCEPT !.groupSizes = U32List(mtgc.at, mtgc.count)])

geosetGNDX(gndx, mdxVersion, assertsOn, g) ==
    IF ~gndx.ok THEN GeosetResult("fail", gndx.err, EmptyGeoset)
    ELSE geosetMTGC(readTaggedArray(gndx.r, TagMTGC, "MTGC", 4,
                                    "Unexpected EOF reading MTGC."),
                    mdxVersion, assertsOn,
                    [g EXCEPT !.vertexGroups = U8List(gndx.at, gndx.count)])

geosetPVTX(pvtx, mdxVersion, assertsOn, g) ==
    IF ~pvtx.ok THEN GeosetResult("fail", pvtx.err, EmptyGeoset)
    ELSE geosetGNDX(readTaggedArray(pvtx.r, TagGNDX, "GNDX", 1,
                                    "Unexpected EOF reading GNDX."),
                    mdxVersion, assertsOn,
                    [g EXCEPT !.faces = U16List(pvtx.at, pvtx.count)])

geosetPCNT(pcnt, mdxVersion, assertsOn, g) ==
    IF ~pcnt.ok THEN GeosetResult("fail", pcnt.err, EmptyGeoset)
    ELSE geosetPVTX(readTaggedArray(pcnt.r, TagPVTX, "PVTX", 2,
                                    "Unexpected EOF reading PVTX."),
                    mdxVersion, assertsOn,
                    [g EXCEPT !.faceGroups = U32List(pcnt.at, pcnt.count)])

geosetPTYP(ptyp, mdxVersion, assertsOn, g) ==
    IF ~ptyp.ok THEN GeosetResult("fail", ptyp.err, EmptyGeoset)
    ELSE geosetPCNT(readTaggedArray(ptyp.r, TagPCNT, "PCNT", 4,
                                    "Unexpected EOF reading PCNT."),
                    mdxVersion, assertsOn,
                    [g EXCEPT !.faceTypeGroups = U32List(ptyp.at, ptyp.count)])

\* The reader after the normals: nRead normals are read, and of "any extra
\* normals" the floats are read until one fails
SkipNormals(r, vertexCount, normalCount) ==
    [r EXCEPT !.pos = @ + 12 * Min(vertexCount, normalCount)
                        + 4 * Min(3 * (normalCount - Min(vertexCount, normalCount)),
                                  (r.size - @ - 12 * Min(vertexCount, normalCount))
                                      \div 4)]

\* nh is the NRMS header
geosetNRMS(nh, mdxVersion, assertsOn, g) ==
    IF ~nh.ok THEN GeosetResult("fail", nh.err, EmptyGeoset)
    ELSE IF ~canRead(nh.r, 12 * Min(Len(g.vertices), nh.count)) THEN
        GeosetFail("Unexpected EOF reading NRMS normals.")
    ELSE geosetPTYP(readTaggedArray(SkipNormals(nh.r, Len(g.vertices), nh.count),
                                    TagPTYP, "PTYP", 4,
                                    "Unexpected EOF reading PTYP."),
                    mdxVersion, assertsOn, g)

\* vrtx is the VRTX array
geosetVRTX(vrtx, mdxVersion, assertsOn) ==
    IF ~vrtx.ok THEN GeosetResult("fail", vrtx.err, EmptyGeoset)
    ELSE geosetNRMS(readArrayTagCount(vrtx.r, TagNRMS, "NRMS"), mdxVersion, assertsOn,
            [vertices |-> [i \in 1..vrtx.count |->
                             <<U32At(vrtx.at.base + vrtx.at.pos + 12 * (i - 1)),
                               U32At(vrtx.at.base + vrtx.at.pos + 12 * (i - 1) + 4),
                               U32At(vrtx.at.base + vrtx.at.pos + 12 * (i - 1) + 8)>>],
             faceTypeGroups |-> <<>>, faceGroups |-> <<>>, faces |-> <<>>,
             vertexGroups |-> <<>>, groupSizes |-> <<>>, groups |-> <<>>,
             materialId |-> 0])

\* parseGeoset(r, inclusiveSize, mdxVersion, out, outError), after the
\* bounds check: gs is the geoset's own reader
parseGeosetBody(gs, mdxVersion, assertsOn) ==
    geosetVRTX(readTaggedArray(gs, TagVRTX, "VRTX", 12,
                               "Unexpected EOF reading VRTX vertices."),
               mdxVersion, assertsOn)

\* "Advance parent reader over this geoset": res is what the geoset's own
\* reader gave, r the parent reader afterwards
geosetReturn(res, r) ==
    [status |-> res.status, err |-> res.err, out |-> res.out,
     asserted |-> res.asserted, r |-> r]

\* parseGeoset: [status, err, out, asserted, r (the parent reader afterwards)]
parseGeoset(r, inclusiveSize, mdxVersion, assertsOn) ==
    IF inclusiveSize - 4 < 0 \/ ~canRead(r, inclusiveSize - 4) THEN
        [status |-> "fail", err |-> setErr("Geoset size out of bounds.", ""),
         out |-> EmptyGeoset, asserted |-> FALSE, r |-> r]
    ELSE geosetReturn(parseGeosetBody(MkReader(r.base + r.pos, inclusiveSize - 4, 0),
                                      mdxVersion, assertsOn),
                      Advance(r, inclusiveSize - 4))

----------------------------------------------------------------------------
(* The other sub-parsers.  Each returns [ok, err, r, ...]: err is NoError   *)
(* when the sub-parser never called setErr.                                 *)

F32One == 1065353216    \* the bits of 1.0f

DefaultLayer ==
    [filterMode |-> 0, shadingFlags |-> 0, textureId |-> 0, coordId |-> 0,
     alpha |-> F32One]
DefaultMaterial == [priorityPlane |-> 0, flags |-> 0, layer |-> DefaultLayer]

\* parseTextures; the file name is read past and not kept
RECURSIVE parseTexturesLoop(_, _, _, _)
parseTexturesLoop(i, count, r, textures) ==
    IF i >= count THEN [ok |-> TRUE, err |-> NoError, r |-> r, textures |-> textures]
    ELSE LET rep == readU32(r) IN
         IF ~rep.ok THEN
            [ok |-> FALSE, err |-> setErr("Unexpected EOF in TEXS.", ""), r |-> r,
             textures |-> textures]
         ELSE LET nm == skip(rep.r, 260)      \* readFixedString(r, 260)
                  fl == readU32(nm.r)
              IN IF ~fl.ok THEN
                    [ok |-> FALSE, err |-> setErr("Unexpected EOF in TEXS.", ""),
                     r |-> nm.r, textures |-> textures]
                 ELSE parseTexturesLoop(i + 1, count, fl.r,
                        Append(textures, [replaceableId |-> rep.v, flags |-> fl.v]))

parseTextures(r, chunkSize, textures) ==
    parseTexturesLoop(0, chunkSize \div (4 + 260 + 4), r, textures)

\* parseMaterials, "Parse first layer, skip the rest"
RECURSIVE parseLayers(_, _, _, _, _)
parseLayers(li, layersCount, mr, mdxVersion, m) ==
    IF li >= layersCount THEN [ok |-> TRUE, err |-> NoError, m |-> m]
    ELSE
    LET layerStart == mr.pos
        ls == readU32(mr)
    IN
    IF ~ls.ok THEN
        [ok |-> FALSE, err |-> setErr("Unexpected EOF reading layer size.", ""), m |-> m]
    ELSE IF ls.v < 24 \/ layerStart + ls.v > mr.size THEN
        [ok |-> FALSE, err |-> setErr("Invalid layer size.", ""), m |-> m]
    ELSE IF ~canRead(ls.r, 8) THEN
        [ok |-> FALSE, err |-> setErr("Unexpected EOF reading layer header.", ""),
         m |-> m]
    ELSE
    LET shadingFlags == U32At(ls.r.base + ls.r.pos)
        filterMode == U32At(ls.r.base + ls.r.pos + 4)
        r1 == Advance(ls.r, 8)
        layerEnd == layerStart + ls.v
        hasShaderId == mdxVersion > 800 /\ (layerEnd - r1.pos) >= 20
    IN
    IF hasShaderId /\ ~canRead(r1, 4) THEN
        [ok |-> FALSE, err |-> setErr("Unexpected EOF reading layerShaderId.", ""),
         m |-> m]
    ELSE
    LET r2 == IF hasShaderId THEN Advance(r1, 4) ELSE r1 IN
    IF ~canRead(r2, 16) THEN
        [ok |-> FALSE, err |-> setErr("Unexpected EOF reading layer fields.", ""),
         m |-> m]
    ELSE
    LET layer == [filterMode |-> filterMode, shadingFlags |-> shadingFlags,
                  textureId |-> U32At(r2.base + r2.pos),
                  coordId |-> U32At(r2.base + r2.pos + 8),
                  alpha |-> U32At(r2.base + r2.pos + 12)]
    IN parseLayers(li + 1, layersCount, [mr EXCEPT !.pos = layerEnd], mdxVersion,
                   IF li = 0 THEN [m EXCEPT !.layer = layer] ELSE m)

RECURSIVE parseMaterialsLoop(_, _, _, _)
parseMaterialsLoop(r, end, mdxVersion, materials) ==
    IF ~(r.pos + 4 <= end) THEN
        [ok |-> TRUE, err |-> NoError, r |-> r, materials |-> materials]
    ELSE
    LET matStart == r.pos
        is == readU32(r)
    IN
    IF ~is.ok THEN [ok |-> TRUE, err |-> NoError, r |-> r, materials |-> materials]
    ELSE IF is.v < 12 \/ matStart + is.v > end THEN
        [ok |-> FALSE, err |-> setErr("Invalid material inclusiveSize.", ""),
         r |-> is.r, materials |-> materials]
    ELSE
    LET mr == MkReader(r.base + matStart + 4, is.v - 4, 0)
        r1 == [r EXCEPT !.pos = matStart + is.v]
    IN
    IF ~canRead(mr, 8) THEN
        [ok |-> FALSE, err |-> setErr("Unexpected EOF in material header.", ""),
         r |-> r1, materials |-> materials]
    ELSE
    LET m0 == [DefaultMaterial EXCEPT !.priorityPlane = I32At(mr.base + mr.pos),
                                      !.flags = U32At(mr.base + mr.pos + 4)]
        mr1 == Advance(mr, 8)
        sh == skip(mr1, 80)
    IN
    IF mdxVersion > 800 /\ ~sh.ok THEN
        [ok |-> FALSE, err |-> setErr("Unexpected EOF skipping material shader.", ""),
         r |-> r1, materials |-> materials]
    ELSE
    LET mr2 == IF mdxVersion > 800 THEN sh.r ELSE mr1
        lays == readTag(mr2)
    IN
    IF ~lays.ok \/ lays.v # TagLAYS THEN
        parseMaterialsLoop(r1, end, mdxVersion, Append(materials, m0))
    ELSE
    LET lc == readU32(lays.r) IN
    IF ~lc.ok THEN
        [ok |-> FALSE, err |-> setErr("Unexpected EOF reading LAYS count.", ""),
         r |-> r1, materials |-> materials]
    ELSE IF lc.v = 0 THEN
        parseMaterialsLoop(r1, end, mdxVersion, Append(materials, m0))
    ELSE
    LET L == parseLayers(0, lc.v, lc.r, mdxVersion, m0) IN
    IF ~L.ok THEN [ok |-> FALSE, err |-> L.err, r |-> r1, materials |-> materials]
    ELSE parseMaterialsLoop(r1, end, mdxVersion, Append(materials, L.m))

parseMaterials(r, chunkSize, mdxVersion, materials) ==
    parseMaterialsLoop(r, r.pos + chunkSize, mdxVersion, materials)

\* parseSequences; a sequence keeps startMs, endMs and flags
RECURSIVE parseSequencesLoop(_, _)
parseSequencesLoop(r, sequences) ==
    IF ~canRead(r, 80 + 4 + 4 + 4 + 4) THEN
        [ok |-> TRUE, err |-> NoError, r |-> r, sequences |-> sequences]
    ELSE
    LET st == I32At(r.base + r.pos + 80)
        en == I32At(r.base + r.pos + 84)
        s == [startMs |-> IF st < 0 THEN 0 ELSE st,
              endMs |-> IF en < 0 THEN 0 ELSE en,
              flags |-> U32At(r.base + r.pos + 92)]
        r1 == Advance(r, 96)
        remainForThis == Min(132 - 96, r1.size - r1.pos)
        r2 == IF remainForThis > 0 /\ canRead(r1, remainForThis)
              THEN Advance(r1, remainForThis) ELSE r1
    IN parseSequencesLoop(r2, Append(sequences, s))

parseSequences(r, chunkSize, sequences) ==
    IF chunkSize < 80 + 4 + 4 + 4 + 4 THEN
        [ok |-> TRUE, err |-> NoError, r |-> r, sequences |-> sequences]
    ELSE parseSequencesLoop(r, sequences)

parseGlobalSequences(r, chunkSize, globalSequencesMs) ==
    LET n == Min(chunkSize \div 4, (r.size - r.pos) \div 4) IN
    [ok |-> TRUE, err |-> NoError, r |-> Advance(r, 4 * n),
     globalSequencesMs |-> globalSequencesMs \o U32List(r, n)]

\* parsePivots; a pivot is the raw bits of (x, y, z)
parsePivots(r, chunkSize, pivots) ==
    LET n == Min(chunkSize \div 12, (r.size - r.pos) \div 12)
        \* a pivot cut short still moves the cursor over the floats it read
        part == IF n < chunkSize \div 12 THEN (r.size - r.pos - 12 * n) \div 4 ELSE 0
    IN [ok |-> TRUE, err |-> NoError, r |-> Advance(r, 12 * n + 4 * part),
        pivots |-> pivots \o [i \in 1..n |->
                     <<U32At(r.base + r.pos + 12 * (i - 1)),
                       U32At(r.base + r.pos + 12 * (i - 1) + 4),
                       U32At(r.base + r.pos + 12 * (i - 1) + 8)>>]]

\* ModelData::Node; the name and the keyframe tracks are not kept: whatever
\* the track scan of parseNodeBlock reads, it ends with r.pos = end.
DefaultNode ==
    [type |-> "", nodeId |-> -1, parentId |-> -1, flags |-> 0, pivot |-> <<0, 0, 0>>]

parseNodeBlock(r) ==
    LET start == r.pos
        sz == readU32(r)
    IN
    IF ~sz.ok THEN
        [ok |-> FALSE, err |-> setErr("Unexpected EOF reading node size.", ""),
         r |-> r, node |-> DefaultNode]
    ELSE IF sz.v < 96 \/ ~canRead(sz.r, sz.v - 4) THEN
        [ok |-> FALSE, err |-> setErr("Invalid node size.", ""), r |-> sz.r,
         node |-> DefaultNode]
    ELSE
    LET r1 == Advance(sz.r, 80) IN      \* readFixedString(r, 80)
    IF ~canRead(r1, 12) THEN
        [ok |-> FALSE, err |-> setErr("Unexpected EOF reading node header.", ""),
         r |-> r1, node |-> DefaultNode]
    ELSE [ok |-> TRUE, err |-> NoError, r |-> [r EXCEPT !.pos = start + sz.v],
          node |-> [DefaultNode EXCEPT !.nodeId = I32At(r1.base + r1.pos),
                                       !.parentId = I32At(r1.base + r1.pos + 4),
                                       !.flags = U32At(r1.base + r1.pos + 8)]]

storeNode(nodes, node) ==
    IF node.nodeId < 0 THEN nodes
    ELSE LET idx == node.nodeId
             grown == IF Len(nodes) <= idx
                      THEN nodes \o [i \in 1..(idx + 1 - Len(nodes)) |-> DefaultNode]
                      ELSE nodes
         IN [grown EXCEPT ![idx + 1] = node]

\* parseBones (withBoneFields) and parseHelpers
RECURSIVE parseNodeList(_, _, _, _, _)
parseNodeList(r, endPos, nodes, type, withBoneFields) ==
    IF ~(r.pos + 4 <= endPos) THEN
        [ok |-> TRUE, err |-> NoError, r |-> [r EXCEPT !.pos = endPos], nodes |-> nodes]
    ELSE
    LET nb == parseNodeBlock(r) IN
    IF ~nb.ok THEN
        [ok |-> FALSE, err |-> nb.err, r |-> [r EXCEPT !.pos = endPos], nodes |-> nodes]
    ELSE IF withBoneFields /\ ~canRead(nb.r, 8) THEN
        [ok |-> FALSE, err |-> setErr("Unexpected EOF reading bone fields.", ""),
         r |-> [r EXCEPT !.pos = endPos], nodes |-> nodes]
    ELSE parseNodeList(IF withBoneFields THEN Advance(nb.r, 8) ELSE nb.r, endPos,
                       storeNode(nodes, [nb.node EXCEPT !.type = type]),
                       type, withBoneFields)

parseBones(r, chunkSize, nodes) ==
    parseNodeList(r, r.pos + chunkSize, nodes, "BONE", TRUE)

parseHelpers(r, chunkSize, nodes) ==
    parseNodeList(r, r.pos + chunkSize, nodes, "HELP", FALSE)

\* The emitter record after the node block: 14 fields, 3 colours, 3 alpha
\* bytes, 3 scalings, 2 x 3 head and 2 x 3 tail intervals, 4 fields
Pre2FixedBytes == 14 * 4 + 36 + 3 + 12 + 24 + 24 + 16

\* parseNodeChunkObject (isPre2 = FALSE) and parsePRE2 (isPre2 = TRUE): a
\* failing object is passed over (its setErr stays); an emitter is kept when
\* every fixed field could be read, and keeps objectId, parentId and flags.
RECURSIVE parseObjects(_, _, _, _, _, _, _)
parseObjects(r, endPos, nodes, emitters2, type, isPre2, err) ==
    LET done == [ok |-> TRUE, err |-> err, r |-> [r EXCEPT !.pos = endPos],
                 nodes |-> nodes, emitters2 |-> emitters2]
    IN
    IF ~(r.pos + 4 <= endPos) THEN done
    ELSE
    LET os == readU32(r) IN
    IF ~os.ok THEN done
    ELSE IF os.v < 8 THEN done
    ELSE
    LET objStart == os.r.pos - 4
        objEnd == objStart + os.v
    IN
    IF objEnd > endPos THEN done
    ELSE
    LET orr == MkReader(r.base + objStart, os.v, 4)
        nb == parseNodeBlock(orr)
        rNext == [r EXCEPT !.pos = objEnd]
    IN
    IF ~nb.ok THEN parseObjects(rNext, endPos, nodes, emitters2, type, isPre2, nb.err)
    ELSE
    LET nodes1 == storeNode(nodes, [nb.node EXCEPT !.type = type])
        e == [objectId |-> nb.node.nodeId, parentId |-> nb.node.parentId,
              flags |-> nb.node.flags]
    IN parseObjects(rNext, endPos, nodes1,
                    IF isPre2 /\ canRead(nb.r, Pre2FixedBytes)
                    THEN Append(emitters2, e) ELSE emitters2,
                    type, isPre2, err)

parseNodeChunkObject(r, chunkSize, nodes, typeTag) ==
    parseObjects(r, r.pos + chunkSize, nodes, <<>>, typeTag, FALSE, NoError)

parsePRE2(r, chunkSize, nodes, emitters2) ==
    parseObjects(r, r.pos + chunkSize, nodes, emitters2, "PRE2", TRUE, NoError)

----------------------------------------------------------------------------
(* LoadFromBytes                                                            *)

\* ModelData as constructed; bounds are computed by the code and left out
InitModel ==
    [vertices |-> <<>>, bindVertices |-> <<>>, indices |-> <<>>, subMeshes |-> <<>>,
     geosetCount |-> 0, textures |-> <<>>, materials |-> <<>>, mdxVersion |-> 800,
     sequences |-> <<>>, globalSequencesMs |-> <<>>, pivots |-> <<>>, nodes |-> <<>>,
     vertexGroups |-> <<>>, skinGroups |-> <<>>, emitters2 |-> <<>>]

\* LoadFromBytes is not running
LoadIdle ==
    /\ bytes = <<>>
    /\ build = "unknown"
    /\ pc = "idle"
    /\ rpos = 0
    /\ model = InitModel
    /\ outError = NoError
    /\ lastChunk = NoChunk

\* static_cast<std::uint16_t>
ToU16(n) == n % 65536

\* "Q_ASSERT(idx < gs.vertices.size())" for every triangle index of a geoset
TriIndexAssertHolds(gs) ==
    \A i \in 1..Len(gs.triIndices) : gs.triIndices[i] < Len(gs.vertices)

\* The GEOS loop body from "const std::uint32_t baseVertex" on: vertices,
\* group ids, indices and the submesh of one geoset are appended
appendGeoset(m, gs) ==
    LET baseVertex == Len(m.vertices)
        indexOffset == Len(m.indices)
        groupOffset == Len(m.skinGroups)
        vgCount == Min(Len(gs.vertexGroups), Len(gs.vertices))
        hasGroups == gs.vertexGroups # <<>>
        indices == m.indices \o [i \in 1..Len(gs.triIndices) |->
                                    baseVertex + gs.triIndices[i]]
    IN [m EXCEPT
          !.vertices = @ \o gs.vertices,
          !.skinGroups = IF hasGroups THEN @ \o gs.groups ELSE @,
          !.vertexGroups =
              IF hasGroups
              THEN @ \o [i \in 1..vgCount |-> ToU16(groupOffset + gs.vertexGroups[i])]
                     \o [i \in 1..(Len(gs.vertices) - vgCount) |-> ToU16(groupOffset)]
              ELSE @,
          !.indices = indices,
          !.subMeshes = Append(@, [indexOffset |-> indexOffset,
                                   indexCount |-> Len(indices) - indexOffset,
                                   materialId |-> gs.materialId])]

\* The GEOS branch: [status, err, model, r, asserted].  asserted tells that a
\* Q_ASSERT condition was false, which aborts a debug build (assertsOn) and
\* goes unnoticed in a release build.
RECURSIVE parseGeosets(_, _, _, _)

\* The loop body after parseGeoset returned g
geosetParsed(g, m, assertsOn, asserted) ==
    IF g.status # "ok" THEN
        [status |-> g.status, err |-> g.err, model |-> m, r |-> g.r,
         asserted |-> asserted \/ g.asserted]
    ELSE IF g.out.vertices = <<>> \/ g.out.triIndices = <<>> THEN
        parseGeosets(g.r, [m EXCEPT !.geosetCount = @ + 1], assertsOn,
                     asserted \/ g.asserted)
    ELSE IF ~TriIndexAssertHolds(g.out) /\ assertsOn THEN
        [status |-> "assert", err |-> NoError, model |-> m, r |-> g.r,
         asserted |-> TRUE]
    ELSE parseGeosets(g.r, appendGeoset([m EXCEPT !.geosetCount = @ + 1], g.out),
                      assertsOn,
                      asserted \/ g.asserted \/ ~TriIndexAssertHolds(g.out))

\* "while (cr.canRead(4))"
parseGeosets(cr, m, assertsOn, asserted) ==
    IF ~canRead(cr, 4) THEN
        [status |-> "ok", err |-> NoError, model |-> m, r |-> cr,
         asserted |-> asserted]
    ELSE IF U32At(cr.base + cr.pos) < 4 THEN
        [status |-> "ok", err |-> NoError, model |-> m, r |-> Advance(cr, 4),
         asserted |-> asserted]
    ELSE geosetParsed(parseGeoset(Advance(cr, 4), U32At(cr.base + cr.pos),
                                  m.mdxVersion, assertsOn),
                      m, assertsOn, asserted)

\* A variant of MagicOk that compares the first three bytes only
MagicOk_ThreeBytes ==
    Len(bytes) >= 4 /\ SubSeq(bytes, 1, 3) = SubSeq(TagMDLX, 1, 3)

\* "if (!r.readTag(magic) || !tagEq(magic, "MDLX"))" fails
MagicOk == Len(bytes) >= 4 /\ TagAt(0) = TagMDLX

\* "advance outer reader": r.pos = chunkStart + qsizetype(chunkSize)
\* A variant of AdvanceOuter that leaves the cursor where the branch stopped
AdvanceOuter_Consumed(chunkStart, chunkSize, consumed) == chunkStart + consumed
AdvanceOuter(chunkStart, chunkSize, consumed) == chunkStart + chunkSize

\* The outer reader r of LoadFromBytes and the chunk it stands at
OuterReader == MkReader(0, Len(bytes), rpos)
ChunkTag == TagAt(rpos)
ChunkSize == U32At(rpos + 4)
ChunkStart == rpos + 8
\* "while (r.canRead(8))" and "if (!r.canRead(qsizetype(chunkSize))) break"
ChunkFits ==
    /\ canRead(OuterReader, 8)
    /\ canRead(Advance(OuterReader, 8), ChunkSize)
\* "Subreader for this chunk"
ChunkReader == MkReader(ChunkStart, ChunkSize, 0)

NodeObjectTags == {TagLITE, TagATCH, TagPREM, TagRIBB, TagEVTS, TagCLID}
KnownTags ==
    {TagVERS, TagTEXS, TagMTLS, TagGEOS, TagSEQS, TagGLBS, TagBONE, TagHELP,
     TagPIVT, TagPRE2} \cup NodeObjectTags

TypeOfTag(tag) ==
    CASE tag = TagLITE -> "LITE" [] tag = TagATCH -> "ATCH" [] tag = TagPREM -> "PREM"
      [] tag = TagRIBB -> "RIBB" [] tag = TagEVTS -> "EVTS" [] OTHER -> "CLID"

\* What the branch of one chunk produced
ChunkResult(sub, m) ==
    [status |-> IF sub.ok THEN "ok" ELSE "fail", err |-> sub.err, model |-> m,
     r |-> sub.r, asserted |-> FALSE]

\* After the branch: "return std::nullopt" when it failed, abort when a
\* Q_ASSERT of a debug build failed, else "advance outer reader".  b is the
\* build the run turns out to be when an assertion is what tells them apart.
ApplyChunk(res, b) ==
    /\ outError' = IF res.err.set THEN res.err ELSE outError
    /\ build' = IF res.asserted THEN b ELSE build
    /\ lastChunk' = [tag |-> ChunkTag, start |-> ChunkStart, size |-> ChunkSize,
                     consumed |-> res.r.pos, status |-> res.status,
                     errSet |-> res.err.set]
    /\ CASE res.status = "ok" ->
              /\ pc' = "chunks"
              /\ rpos' = AdvanceOuter(ChunkStart, ChunkSize, res.r.pos)
              /\ model' = res.model
         [] res.status = "fail" -> pc' = "failed" /\ UNCHANGED <<rpos, model>>
         [] OTHER -> pc' = "aborted" /\ UNCHANGED <<rpos, model>>
    /\ UNCHANGED <<bytes, sampleVars, evalVars, viewVars>>

\* LoadFromBytes up to the chunk loop
CheckHeader ==
    /\ pc = "start"
    /\ IF Len(bytes) < 8 THEN
          pc' = "failed" /\ outError' = setErr("File too small.", "") /\ rpos' = rpos
       ELSE IF ~MagicOk THEN
          /\ pc' = "failed"
          /\ outError' = setErr("Not an MDX file (missing MDLX magic).", "")
          /\ rpos' = 4
       ELSE pc' = "chunks" /\ rpos' = 4 /\ outError' = outError
    /\ UNCHANGED <<bytes, build, model, lastChunk, sampleVars, evalVars, viewVars>>

ChunkVERS ==
    /\ pc = "chunks" /\ ChunkFits /\ ChunkTag = TagVERS
    /\ LET ver == readU32(ChunkReader) IN
       ApplyChunk(ChunkResult([ok |-> ver.ok, r |-> ver.r,
                               err |-> IF ver.ok THEN NoError
                                       ELSE setErr("Failed reading VERS.", "")],
                              [model EXCEPT !.mdxVersion = ver.v]), build)

ChunkTEXS ==
    /\ pc = "chunks" /\ ChunkFits /\ ChunkTag = TagTEXS
    /\ LET sub == parseTextures(ChunkReader, ChunkSize, model.textures) IN
       ApplyChunk(ChunkResult(sub, [model EXCEPT !.textures = sub.textures]), build)

ChunkMTLS ==
    /\ pc = "chunks" /\ ChunkFits /\ ChunkTag = TagMTLS
    /\ LET sub == parseMaterials(ChunkReader, ChunkSize, model.mdxVersion,
                                 model.materials)
       IN ApplyChunk(ChunkResult(sub, [model EXCEPT !.materials = sub.materials]),
                     build)

ChunkGEOS ==
    /\ pc = "chunks" /\ ChunkFits /\ ChunkTag = TagGEOS
    /\ \E b \in (IF build = "unknown" THEN {"debug", "release"} ELSE {build}) :
          ApplyChunk(parseGeosets(ChunkReader, model, b = "debug", FALSE), b)

ChunkSEQS ==
    /\ pc = "chunks" /\ ChunkFits /\ ChunkTag = TagSEQS
    /\ LET sub == parseSequences(ChunkReader, ChunkSize, model.sequences) IN
       ApplyChunk(ChunkResult(sub, [model EXCEPT !.sequences = sub.sequences]), build)

ChunkGLBS ==
    /\ pc = "chunks" /\ ChunkFits /\ ChunkTag = TagGLBS
    /\ LET sub == parseGlobalSequences(ChunkReader, ChunkSize,
                                       model.globalSequencesMs)
       IN ApplyChunk(ChunkResult(sub, [model EXCEPT !.globalSequencesMs =
                                                        sub.globalSequencesMs]),
                     build)

ChunkBONE ==
    /\ pc = "chunks" /\ ChunkFits /\ ChunkTag = TagBONE
    /\ LET sub == parseBones(ChunkReader, ChunkSize, model.nodes) IN
       ApplyChunk(ChunkResult(sub, [model EXCEPT !.nodes = sub.nodes]), build)

ChunkHELP ==
    /\ pc = "chunks" /\ ChunkFits /\ ChunkTag = TagHELP
    /\ LET sub == parseHelpers(ChunkReader, ChunkSize, model.nodes) IN
       ApplyChunk(ChunkResult(sub, [model EXCEPT !.nodes = sub.nodes]), build)

ChunkNodeObjects ==
    /\ pc = "chunks" /\ ChunkFits /\ ChunkTag \in NodeObjectTags
    /\ LET sub == parseNodeChunkObject(ChunkReader, ChunkSize, model.nodes,
                                       TypeOfTag(ChunkTag))
       IN ApplyChunk(ChunkResult(sub, [model EXCEPT !.nodes = sub.nodes]), build)

ChunkPIVT ==
    /\ pc = "chunks" /\ ChunkFits /\ ChunkTag = TagPIVT
    /\ LET sub == parsePivots(ChunkReader, ChunkSize, model.pivots) IN
       ApplyChunk(ChunkResult(sub, [model EXCEPT !.pivots = sub.pivots]), build)

ChunkPRE2 ==
    /\ pc = "chunks" /\ ChunkFits /\ ChunkTag = TagPRE2
    /\ LET sub == parsePRE2(ChunkReader, ChunkSize, model.nodes, model.emitters2) IN
       ApplyChunk(ChunkResult(sub, [model EXCEPT !.nodes = sub.nodes,
                                                 !.emitters2 = sub.emitters2]),
                  build)

\* A tag no branch matches: only "advance outer reader" runs
ChunkUnknown ==
    /\ pc = "chunks" /\ ChunkFits /\ ChunkTag \notin KnownTags
    /\ ApplyChunk(ChunkResult([ok |-> TRUE, err |-> NoError, r |-> ChunkReader],
                              model), build)

\* The loop ends: fewer than 8 bytes are left, or the declared size does not fit
LoopExit ==
    /\ pc = "chunks" /\ ~ChunkFits
    /\ pc' = "post"
    /\ rpos' = IF canRead(OuterReader, 8) THEN rpos + 8 ELSE rpos
    /\ UNCHANGED <<bytes, build, model, outError, lastChunk, sampleVars, evalVars, viewVars>>

\* "if (!model.pivots.empty())": nodes grow to the pivot count and take the pivots
SeedPivots(m) ==
    IF m.pivots = <<>> THEN m.nodes
    ELSE LET grown == IF Len(m.nodes) < Len(m.pivots)
                      THEN m.nodes \o [i \in 1..(Len(m.pivots) - Len(m.nodes)) |->
                                          DefaultNode]
                      ELSE m.nodes
         IN [i \in 1..Len(grown) |->
                IF i <= Len(m.pivots)
                THEN [grown[i] EXCEPT !.nodeId = IF @ < 0 THEN i - 1 ELSE @,
                                      !.pivot = m.pivots[i]]
                ELSE grown[i]]

\* The end of a load that leaves the material ids as the geosets gave them
PostProcess_Unclamped(m) ==
    [m EXCEPT !.nodes = SeedPivots(m),
              !.bindVertices = m.vertices,
              !.materials = IF m.materials = <<>> THEN <<DefaultMaterial>> ELSE @]

\* LoadFromBytes after the loop: pivots, bind vertices, default material,
\* "Clamp material ids"
PostProcess(m) ==
    LET materials == IF m.materials = <<>> THEN <<DefaultMaterial>> ELSE m.materials
        maxMat == Len(materials)
    IN [m EXCEPT !.nodes = SeedPivots(m),
                 !.bindVertices = m.vertices,
                 !.materials = materials,
                 !.subMeshes = [i \in 1..Len(m.subMeshes) |->
                                  IF m.subMeshes[i].materialId >= maxMat
                                  THEN [m.subMeshes[i] EXCEPT !.materialId = 0]
                                  ELSE m.subMeshes[i]]]

\* "return model"
Finish ==
    /\ pc = "post"
    /\ pc' = "done"
    /\ model' = PostProcess(model)
    /\ UNCHANGED <<bytes, build, rpos, outError, lastChunk, sampleVars, evalVars, viewVars>>

----------------------------------------------------------------------------
(* The files LoadFromBytes is run on: the byte layouts the parsers read     *)

MaxChunks == 2      \* chunks of a file
MaxVertices == 3    \* vertices (VRTX) of a geoset
MaxGroups == 2      \* matrix groups (MTGC) of a geoset

RECURSIVE Flatten(_)
Flatten(ss) == IF ss = <<>> THEN <<>> ELSE Head(ss) \o Flatten(Tail(ss))

Zeros(n) == [i \in 1..n |-> 0]

\* little-endian encodings, the inverses of U16At, U32At and I32At
U16(n) == <<n % 256, (n \div 256) % 256>>
U32(n) == <<n % 256, (n \div 256) % 256, (n \div 65536) % 256, n \div 16777216>>
I32(n) == IF n >= 0 THEN U32(n)
          ELSE LET m == -n - 1 IN
               <<255 - (m % 256), 255 - ((m \div 256) % 256),
                 255 - ((m \div 65536) % 256), 255 - (m \div 16777216)>>

U32s(xs) == Flatten([i \in 1..Len(xs) |-> U32(xs[i])])
I32s(xs) == Flatten([i \in 1..Len(xs) |-> I32(xs[i])])
U16s(xs) == Flatten([i \in 1..Len(xs) |-> U16(xs[i])])

\* [tag][size][payload]; declared is the size field
ChunkOfSize(tag, declared, payload) == tag \o U32(declared) \o payload
Chunk(tag, payload) == ChunkOfSize(tag, Len(payload), payload)

\* [tag][count][elements]
TaggedArray(tag, count, elems) == tag \o U32(count) \o elems

\* A geoset as parseGeoset reads it.  g: nv vertices (vertex i at (i, 0, 0)),
\* the PTYP, PCNT, PVTX, GNDX, MTGC and MATS arrays, materialId, lod (the
\* layout of versions above 800, with a TANG block) and uvSets.
GeosetBytes(g) ==
    LET body ==
            TaggedArray(TagVRTX, g.nv,
                        Flatten([i \in 1..g.nv |-> U32s(g.vrtx[i])]))
            \o (IF g.nrms THEN TaggedArray(TagNRMS, g.nv, Zeros(12 * g.nv)) ELSE <<>>)
            \o TaggedArray(TagPTYP, Len(g.ptyp), U32s(g.ptyp))
            \o TaggedArray(TagPCNT, Len(g.pcnt), U32s(g.pcnt))
            \o TaggedArray(TagPVTX, Len(g.pvtx), U16s(g.pvtx))
            \o TaggedArray(TagGNDX, Len(g.gndx), g.gndx)
            \o TaggedArray(TagMTGC, Len(g.mtgc), U32s(g.mtgc))
            \o TaggedArray(TagMATS, Len(g.mats), I32s(g.mats))
            \o U32(g.materialId) \o U32(0) \o U32(0)
            \o Zeros(28) \o U32(0)
            \o (IF g.lod THEN Zeros(84) \o TagTANG \o U32(4) \o Zeros(4) ELSE <<>>)
            \o TaggedArray(TagUVAS, g.uvSets,
                           Flatten([s \in 1..g.uvSets |->
                                       TaggedArray(TagUVBS, g.nv, Zeros(8 * g.nv))]))
    IN U32(Len(body) + 4) \o body

\* A triangle list over MaxVertices vertices, each vertex in matrix group 0
\* of one; vertex i has the position bits (i, 0, 0)
Triangle ==
    [nv |-> MaxVertices, vrtx |-> [i \in 1..MaxVertices |-> <<i, 0, 0>>],
     nrms |-> TRUE, ptyp |-> <<4>>, pcnt |-> <<3>>, pvtx |-> <<0, 1, 2>>,
     gndx |-> [i \in 1..MaxVertices |-> 0], mtgc |-> <<1>>, mats |-> <<0>>,
     materialId |-> 0, lod |-> FALSE, uvSets |-> 1]

\* Three vertices at (0, 0, 0), (1, 0, 0) and (0, 1, 0) and one triangle list
\* of the three indices 0, 1, 2
MinimalTriangle ==
    [Triangle EXCEPT !.nv = 3,
                     !.vrtx = <<<<0, 0, 0>>, <<F32One, 0, 0>>, <<0, F32One, 0>>>>,
                     !.gndx = <<0, 0, 0>>]

\* The triangle without a normals block: PTYP follows the vertex positions
WithoutNormals == [Triangle EXCEPT !.nrms = FALSE]

\* A group of a type that is no primitive kind, then a triangle list
UnsupportedThenList ==
    [Triangle EXCEPT !.ptyp = <<9, 4>>, !.pcnt = <<3, 3>>,
                     !.pvtx = <<0, 1, 2, 2, 1, 0>>]

\* Geosets that differ in the primitive types and the corner indices: the
\* last corner is the first vertex, the last vertex, or one past it
PrimitiveGeosets ==
    {[Triangle EXCEPT !.pvtx = <<0, 1, top>>] :
        top \in {0, MaxVertices - 1, MaxVertices}}
    \cup {[Triangle EXCEPT !.ptyp = <<5, 9, 6, 4, 7>>, !.pcnt = <<4, 2, 4, 0, 4>>,
                           !.pvtx = <<0, 1, 2, 1, 7, 7, 2, 1, 0, 2, 0, 1, 2, 0>>,
                           !.gndx = <<>>, !.mtgc = <<>>, !.mats = <<>>,
                           !.materialId = 5, !.uvSets = 2]}
    \cup {UnsupportedThenList}

\* Geosets that differ in the vertex groups (GNDX) and matrix groups (MTGC):
\* the first vertex is in the first group, the last group, or one past it
SkinnedGeosets ==
    {[Triangle EXCEPT !.gndx = <<gid, 0>>,
                      !.mtgc = [i \in 1..ng |-> 1],
                      !.mats = [i \in 1..ng |-> i - 1]] :
        gid \in {0, MaxGroups - 1, MaxGroups}, ng \in {0, MaxGroups}}
    \cup {[Triangle EXCEPT !.gndx = <<>>, !.mtgc = <<2, 0, 1>>,
                           !.mats = <<0, -1, 1, 2>>]}

\* GEOS payloads that parseGeoset rejects, or that end the loop early
BrokenGeosets ==
    {U32(400) \o Zeros(8),                              \* size out of bounds
     U32(12) \o TagNRMS \o U32(0),                      \* not the VRTX tag
     U32(16) \o TagVRTX \o U32(1) \o Zeros(4),          \* vertices cut short
     U32(3) \o Zeros(4),                                \* inclusive size below 4
     GeosetBytes([Triangle EXCEPT !.lod = TRUE])}       \* layout of version 900

GeosChunks ==
    {Chunk(TagGEOS, GeosetBytes(g)) : g \in PrimitiveGeosets \cup SkinnedGeosets}
    \cup {Chunk(TagGEOS, b) : b \in BrokenGeosets}
    \cup {Chunk(TagGEOS, GeosetBytes(MinimalTriangle)),
          Chunk(TagGEOS, GeosetBytes(WithoutNormals))}
    \cup {Chunk(TagGEOS, GeosetBytes(Triangle)
                         \o GeosetBytes([Triangle EXCEPT !.gndx = <<1>>,
                                                         !.mtgc = <<>>,
                                                         !.mats = <<>>]))}

\* One layer and one material as parseMaterials reads them
LayerBytes(size) == U32(size) \o U32(1) \o U32(2) \o U32(3) \o U32(0) \o U32(0)
                    \o U32(F32One)
MaterialBytes(size, layers) ==
    U32(size) \o I32(-1) \o U32(1) \o TagLAYS \o U32(1) \o layers

\* One node block as parseNodeBlock reads it: inclusive size, name, object
\* id, parent id, flags, and one KGTR track of no keys
NodeBytes(size, nodeId, parentId) ==
    U32(size) \o Zeros(80) \o I32(nodeId) \o I32(parentId) \o U32(256)
    \o TagKGTR \o U32(0) \o U32(1) \o I32(-1)

OtherChunks ==
    {Chunk(TagVERS, U32(900)),
     ChunkOfSize(TagVERS, 2, Zeros(2)),
     Chunk(TagTEXS, U32(1) \o Zeros(260) \o U32(3)),
     Chunk(TagMTLS, MaterialBytes(48, LayerBytes(28))),
     Chunk(TagMTLS, U32(4) \o Zeros(8)),
     Chunk(TagSEQS, Zeros(80) \o I32(-5) \o U32(1000) \o Zeros(8) \o Zeros(36)),
     Chunk(TagGLBS, U32(1000) \o Zeros(2)),
     Chunk(TagPIVT, U32(1) \o U32(2) \o U32(3) \o Zeros(12)),
     Chunk(TagBONE, NodeBytes(112, 1, -1) \o I32(0) \o I32(-1)),
     Chunk(TagBONE, NodeBytes(50, 0, -1)),
     Chunk(TagHELP, NodeBytes(112, 0, 1)),
     Chunk(TagATCH, U32(120) \o NodeBytes(112, 2, 0) \o Zeros(4)),
     Chunk(TagATCH, U32(12) \o U32(8) \o Zeros(4)),
     Chunk(TagPRE2, U32(116 + Pre2FixedBytes) \o NodeBytes(112, 0, -1)
                    \o Zeros(Pre2FixedBytes)),
     Chunk(TagXXXX, Zeros(5)),
     ChunkOfSize(TagXXXX, 1048576, Zeros(5))}

ChunkPool == GeosChunks \cup OtherChunks

\* Files that fail before the chunk loop: too small, or not MDLX
BadHeaders ==
    {<<>>, TagMDLX, TagMDLX \o Zeros(3), <<77, 68, 76, 89>> \o Zeros(4),
     <<88, 68, 76, 88>> \o Chunk(TagVERS, U32(800)), Zeros(8),
     TagVERS \o U32(4) \o U32(800)}

LoadInputs ==
    BadHeaders
    \cup {TagMDLX \o Flatten(cs) :
            cs \in UNION {[1..n -> ChunkPool] : n \in 0..MaxChunks}}

InitLoad ==
    /\ bytes \in LoadInputs
    /\ build = "unknown"
    /\ pc = "start"
    /\ rpos = 0
    /\ model = InitModel
    /\ outError = NoError
    /\ lastChunk = NoChunk
    /\ seqLens = <<>>
    /\ SampleIdle
    /\ EvalIdle
    /\ ViewIdle

NextLoad ==
    \/ CheckHeader
    \/ ChunkVERS
    \/ ChunkTEXS
    \/ ChunkMTLS
    \/ ChunkGEOS
    \/ ChunkSEQS
    \/ ChunkGLBS
    \/ ChunkBONE
    \/ ChunkHELP
    \/ ChunkNodeObjects
    \/ ChunkPIVT
    \/ ChunkPRE2
    \/ ChunkUnknown
    \/ LoopExit
    \/ Finish

SpecLoad == InitLoad /\ [][NextLoad]_vars

----------------------------------------------------------------------------
(* Properties of LoadFromBytes                                              *)

\* C1: for every top-level chunk whose header and declared size fit, the
\* outer cursor after the chunk has been handled is chunkStart + declaredSize,
\* whatever the tag and however many bytes the branch consumed; a chunk with
\* an unrecognized tag adds nothing to the document.
C1_CursorFollowsDeclaredSize ==
    [][(pc = "chunks" /\ pc' = "chunks") =>
          /\ rpos' = (rpos + 8) + U32At(rpos + 4)
          /\ (TagAt(rpos) \notin KnownTags => model' = model)]_loadVars

\* C1: an unrecognized chunk has been handled, and the branch's cursor is
\* not where the declared size ends
C1_UnknownChunkSkipped ==
    /\ pc = "chunks"
    /\ lastChunk.status = "ok"
    /\ lastChunk.tag \notin KnownTags
    /\ lastChunk.consumed # lastChunk.size
    /\ rpos = lastChunk.start + lastChunk.size

\* C2: in a document LoadFromBytes returned, every triangle index is below
\* the number of vertices.
C2_TriangleIndicesInRange ==
    pc = "done" =>
        \A i \in 1..Len(model.indices) : model.indices[i] < Len(model.vertices)

\* C3: in a document LoadFromBytes returned that has skin groups, every
\* per-vertex group id is below the number of skin groups.
C3_VertexGroupsInRange ==
    (pc = "done" /\ model.skinGroups # <<>>) =>
        \A i \in 1..Len(model.vertexGroups) :
            model.vertexGroups[i] < Len(model.skinGroups)

\* C4: when the sub-parser of one top-level chunk fails, the parse as a
\* whole does not fail.
C4_ChunkFailureIsLocal == lastChunk.status = "fail" => pc # "failed"

\* The first four bytes of the input are 'M', 'D', 'L', 'X'
StartsWithMDLX == Len(bytes) >= 4 /\ SubSeq(bytes, 1, 4) = <<77, 68, 76, 88>>

MagicMessage == "Not an MDX file (missing MDLX magic)."

\* C5: LoadFromBytes fails for every input that does not start with 'MDLX',
\* never fails with the magic error for an input that does, and parses no
\* chunk before the magic is validated.
C5_MagicValidatedFirst ==
    /\ (~StartsWithMDLX /\ pc # "start") => (pc = "failed" /\ lastChunk = NoChunk)
    /\ StartsWithMDLX => outError.msg # MagicMessage
    /\ pc = "start" => (lastChunk = NoChunk /\ model = InitModel)

\* C5: an input of eight bytes or more that does not start with 'MDLX' has
\* been rejected with the magic error
C5_BadMagicRejected ==
    /\ pc = "failed"
    /\ Len(bytes) >= 8
    /\ ~StartsWithMDLX
    /\ outError.msg = MagicMessage

\* C6: whenever LoadFromBytes returns std::nullopt, outError has been
\* assigned on the failing path: by LoadFromBytes itself before the chunk
\* loop, or by the branch of the chunk that failed.
C6_FailureSetsError ==
    pc = "failed" =>
        /\ outError.set
        /\ lastChunk.status = "fail" => lastChunk.errSet

\* C6: a GEOS chunk has failed in parseGeoset and left its message
C6_GeosetFailureReported ==
    /\ pc = "failed"
    /\ lastChunk.status = "fail"
    /\ lastChunk.tag = TagGEOS
    /\ outError.msg = "Unexpected EOF skipping LOD fields."

----------------------------------------------------------------------------
(* The keyframe track sampler (GLModelView.cpp).  A float is an exact       *)
(* rational <<n, d>> with d > 0 in lowest terms: the sampler's arithmetic   *)
(* is carried out without rounding.  A Vec3 is a triple of floats, a Vec4   *)
(* a record [x, y, z, w] of floats.  Where the code takes a square root     *)
(* that is not rational, or a sine or cosine, the result is kept as a       *)
(* term that names the operation and its arguments.                        *)

RECURSIVE Gcd(_, _)
Gcd(a, b) == IF b = 0 THEN a ELSE Gcd(b, a % b)

Abs(a) == IF a < 0 THEN -a ELSE a

\* The fraction p[1] / p[2] in lowest terms with a positive denominator
RatOver(p, g) ==
    IF p[2] < 0 THEN <<(-p[1]) \div g, (-p[2]) \div g>> ELSE <<p[1] \div g, p[2] \div g>>
Rat(n, d) == CHOOSE c \in {RatOver(p, Gcd(Abs(p[1]), Abs(p[2]))) : p \in {<<n, d>>}} : TRUE
RInt(n) == <<n, 1>>
\* The arithmetic of floats; each operand is evaluated once, then bound
RAdd(a, b) ==
    CHOOSE c \in {Rat(x[1] * y[2] + y[1] * x[2], x[2] * y[2]) : x \in {a}, y \in {b}} : TRUE
RSub(a, b) ==
    CHOOSE c \in {Rat(x[1] * y[2] - y[1] * x[2], x[2] * y[2]) : x \in {a}, y \in {b}} : TRUE
RMul(a, b) ==
    CHOOSE c \in {Rat(x[1] * y[1], x[2] * y[2]) : x \in {a}, y \in {b}} : TRUE
RDiv(a, b) ==
    CHOOSE c \in {Rat(x[1] * y[2], x[2] * y[1]) : x \in {a}, y \in {b}} : TRUE
RNeg(a) == <<-a[1], a[2]>>
RLess(a, b) == a[1] * b[2] < b[1] * a[2]

lerpf(a, b, t) == RAdd(a, RMul(RSub(b, a), t))

\* hermite with t2 and t3 computed
hermiteOf(p0, m0, p1, m1, t, t2, t3) ==
    RAdd(RAdd(RMul(RAdd(RSub(RMul(RInt(2), t3), RMul(RInt(3), t2)), RInt(1)), p0),
              RMul(RAdd(RSub(t3, RMul(RInt(2), t2)), t), m0)),
         RAdd(RMul(RAdd(RMul(RInt(-2), t3), RMul(RInt(3), t2)), p1),
              RMul(RSub(t3, t2), m1)))

hermite(p0, m0, p1, m1, t) ==
    hermiteOf(p0, m0, p1, m1, t, RMul(t, t), RMul(RMul(t, t), t))

\* bezier with it = 1 - t computed
bezierOf(p0, c1, c2, p1, t, it) ==
    RAdd(RAdd(RMul(RMul(RMul(it, it), it), p0),
              RMul(RMul(RMul(RMul(RInt(3), it), it), t), c1)),
         RAdd(RMul(RMul(RMul(RMul(RInt(3), it), t), t), c2),
              RMul(RMul(RMul(t, t), t), p1)))

bezier(p0, c1, c2, p1, t) == bezierOf(p0, c1, c2, p1, t, RSub(RInt(1), t))

lerpVec3(a, b, t) == <<lerpf(a[1], b[1], t), lerpf(a[2], b[2], t), lerpf(a[3], b[3], t)>>
hermiteVec3(p0, m0, p1, m1, t) ==
    <<hermite(p0[1], m0[1], p1[1], m1[1], t),
      hermite(p0[2], m0[2], p1[2], m1[2], t),
      hermite(p0[3], m0[3], p1[3], m1[3], t)>>
bezierVec3(p0, c1, c2, p1, t) ==
    <<bezier(p0[1], c1[1], c2[1], p1[1], t),
      bezier(p0[2], c1[2], c2[2], p1[2], t),
      bezier(p0[3], c1[3], c2[3], p1[3], t)>>

Vec4(x, y, z, w) == [x |-> x, y |-> y, z |-> z, w |-> w]
IsVec4(q) == DOMAIN q = {"x", "y", "z", "w"}

lerpVec4(a, b, t) ==
    Vec4(lerpf(a.x, b.x, t), lerpf(a.y, b.y, t), lerpf(a.z, b.z, t),
         lerpf(a.w, b.w, t))

dotQuat(a, b) ==
    RAdd(RAdd(RMul(a.x, b.x), RMul(a.y, b.y)), RAdd(RMul(a.z, b.z), RMul(a.w, b.w)))

\* The natural numbers whose square is n: one or none
Roots(n) == {k \in 0..n : k * k = n}

\* "{ q.x * inv, q.y * inv, q.z * inv, q.w * inv }"
scaleQuat(q, inv) == Vec4(RMul(q.x, inv), RMul(q.y, inv), RMul(q.z, inv), RMul(q.w, inv))

\* normalizeQuat with len * len computed: q scaled by 1 / len
normalizeBy(q, lenSq) ==
    IF lenSq[1] = 0 THEN Vec4(RInt(0), RInt(0), RInt(0), RInt(1))
    ELSE IF Roots(lenSq[1]) = {} \/ Roots(lenSq[2]) = {} THEN [normalizeQuat |-> q]
    ELSE scaleQuat(q, <<CHOOSE k \in Roots(lenSq[2]) : TRUE,
                        CHOOSE k \in Roots(lenSq[1]) : TRUE>>)

normalizeQuat(q) == normalizeBy(q, dotQuat(q, q))

\* slerpQuat after "if (invertIfNecessary && dot < 0.0f)"
slerpFrom(a, b, t, dot) ==
    IF RLess(<<19, 20>>, dot) THEN normalizeQuat(lerpVec4(a, b, t))
    ELSE IF ~RLess(RInt(-1), dot) THEN normalizeQuat(lerpVec4(a, b, t))
    ELSE [slerpQuat |-> <<a, b, t>>]

slerpDot(a, b, t, invertIfNecessary, dot) ==
    IF invertIfNecessary /\ RLess(dot, RInt(0))
    THEN slerpFrom(a, Vec4(RNeg(b.x), RNeg(b.y), RNeg(b.z), RNeg(b.w)), t, RNeg(dot))
    ELSE slerpFrom(a, b, t, dot)

\* slerpQuat; of a quaternion that is a term, the result is a term
slerpQuat(a, b, t, invertIfNecessary) ==
    IF IsVec4(a) /\ IsVec4(b) THEN slerpDot(a, b, t, invertIfNecessary, dotQuat(a, b))
    ELSE [slerpQuat |-> <<a, b, t>>]

\* The query time taken as it is
wrapTime_None(tr, t, globalSequencesMs) == t

\* "timeMs = timeMs % len" for a track on a global sequence
wrapTime(tr, t, globalSequencesMs) ==
    IF tr.globalSeqId >= 0 /\ tr.globalSeqId < Len(globalSequencesMs)
       /\ globalSequencesMs[tr.globalSeqId + 1] # 0
    THEN t % globalSequencesMs[tr.globalSeqId + 1]
    ELSE t

\* "while (hi < keys.size() && timeMs > keys[hi].timeMs) ++hi"
RECURSIVE findSegment(_, _, _)
findSegment(keys, t, hi) ==
    IF hi < Len(keys) /\ t > keys[hi + 1].timeMs THEN findSegment(keys, t, hi + 1)
    ELSE hi

\* "const float t = denom > 0.0f ? float(timeMs - k0.timeMs) / denom : 0.0f"
segmentT(k0, k1, t) ==
    IF k1.timeMs - k0.timeMs > 0 THEN Rat(t - k0.timeMs, k1.timeMs - k0.timeMs)
    ELSE RInt(0)

InterpNone == 0
InterpLinear == 1
InterpHermite == 2
InterpBezier == 3

floatInterp(interp, k0, k1, t) ==
    CASE interp = InterpNone -> k0.value
      [] interp = InterpLinear -> lerpf(k0.value, k1.value, t)
      [] interp = InterpHermite -> hermite(k0.value, k0.outTan, k1.value, k1.inTan, t)
      [] interp = InterpBezier -> bezier(k0.value, k0.outTan, k1.inTan, k1.value, t)
      [] OTHER -> k0.value

vec3Interp(interp, k0, k1, t) ==
    CASE interp = InterpNone -> k0.value
      [] interp = InterpLinear -> lerpVec3(k0.value, k1.value, t)
      [] interp = InterpHermite ->
            hermiteVec3(k0.value, k0.outTan, k1.value, k1.inTan, t)
      [] interp = InterpBezier ->
            bezierVec3(k0.value, k0.outTan, k1.inTan, k1.value, t)
      [] OTHER -> k0.value

quatInterp(interp, k0, k1, t) ==
    CASE interp = InterpNone -> normalizeQuat(k0.value)
      [] interp = InterpLinear -> slerpQuat(k0.value, k1.value, t, TRUE)
      [] interp = InterpHermite ->
            slerpQuat(slerpQuat(k0.value, k1.value, t, FALSE),
                      slerpQuat(k0.outTan, k1.inTan, t, FALSE),
                      RMul(RMul(RInt(2), t), RSub(RInt(1), t)), FALSE)
      [] interp = InterpBezier ->
            slerpQuat(slerpQuat(slerpQuat(k0.value, k0.outTan, t, FALSE),
                                slerpQuat(k0.outTan, k1.inTan, t, FALSE), t, FALSE),
                      slerpQuat(slerpQuat(k0.outTan, k1.inTan, t, FALSE),
                                slerpQuat(k1.inTan, k1.value, t, FALSE), t, FALSE),
                      t, FALSE)
      [] OTHER -> normalizeQuat(k0.value)

\* sampleTrackFloat from "find segment" on: hi is where the search stopped
floatSegment(tr, t, hi) ==
    IF hi >= Len(tr.keys) THEN tr.keys[Len(tr.keys)].value
    ELSE floatInterp(tr.interp, tr.keys[hi], tr.keys[hi + 1],
                     segmentT(tr.keys[hi], tr.keys[hi + 1], t))

\* sampleTrackFloat after the global sequence: t is the time it samples at
floatAt(tr, t) ==
    IF t <= tr.keys[1].timeMs THEN tr.keys[1].value
    ELSE IF t >= tr.keys[Len(tr.keys)].timeMs THEN tr.keys[Len(tr.keys)].value
    ELSE floatSegment(tr, t, findSegment(tr.keys, t, 1))

sampleTrackFloat(tr, t, def, globalSequencesMs) ==
    IF tr.keys = <<>> THEN def ELSE floatAt(tr, wrapTime(tr, t, globalSequencesMs))

vec3Segment(tr, t, hi) ==
    IF hi >= Len(tr.keys) THEN tr.keys[Len(tr.keys)].value
    ELSE vec3Interp(tr.interp, tr.keys[hi], tr.keys[hi + 1],
                    segmentT(tr.keys[hi], tr.keys[hi + 1], t))

vec3At(tr, t) ==
    IF t <= tr.keys[1].timeMs THEN tr.keys[1].value
    ELSE IF t >= tr.keys[Len(tr.keys)].timeMs THEN tr.keys[Len(tr.keys)].value
    ELSE vec3Segment(tr, t, findSegment(tr.keys, t, 1))

sampleTrackVec3(tr, t, def, globalSequencesMs) ==
    IF tr.keys = <<>> THEN def ELSE vec3At(tr, wrapTime(tr, t, globalSequencesMs))

quatSegment(tr, t, hi) ==
    IF hi >= Len(tr.keys) THEN normalizeQuat(tr.keys[Len(tr.keys)].value)
    ELSE quatInterp(tr.interp, tr.keys[hi], tr.keys[hi + 1],
                    segmentT(tr.keys[hi], tr.keys[hi + 1], t))

quatAt(tr, t) ==
    IF t <= tr.keys[1].timeMs THEN normalizeQuat(tr.keys[1].value)
    ELSE IF t >= tr.keys[Len(tr.keys)].timeMs
         THEN normalizeQuat(tr.keys[Len(tr.keys)].value)
    ELSE quatSegment(tr, t, findSegment(tr.keys, t, 1))

sampleTrackQuat(tr, t, def, globalSequencesMs) ==
    IF tr.keys = <<>> THEN def ELSE quatAt(tr, wrapTime(tr, t, globalSequencesMs))

----------------------------------------------------------------------------
(* Tracks to sample                                                        *)

MaxKeys == 3
MaxTime == 4

V3(x, y, z) == <<RInt(x), RInt(y), RInt(z)>>
V4(x, y, z, w) == Vec4(RInt(x), RInt(y), RInt(z), RInt(w))

Key(time, value, inTan, outTan) ==
    [timeMs |-> time, value |-> value, inTan |-> inTan, outTan |-> outTan]

\* The sequences of at most n key times, never decreasing
RECURSIVE KeyTimes(_)
KeyTimes(n) ==
    IF n = 0 THEN {<<>>}
    ELSE KeyTimes(n - 1) \cup
         {Append(ts, t) : ts \in {x \in KeyTimes(n - 1) : Len(x) = n - 1}, t \in 0..MaxTime}

OrderedKeyTimes == {ts \in KeyTimes(MaxKeys) :
                       \A i \in 1..(Len(ts) - 1) : ts[i] <= ts[i + 1]}

FloatKeys(ts) == [i \in 1..Len(ts) |-> Key(ts[i], RInt(3 * i), RInt(i), RInt(-i))]

Vec3Keys(ts) ==
    [i \in 1..Len(ts) |-> Key(ts[i], V3(i, 0, -i), V3(0, i, 0), V3(1, 1, i))]

\* Rotations of length 1
UnitQuats == <<V4(0, 0, 0, 1), V4(0, 0, 1, 0), Vec4(RInt(0), <<3, 5>>, RInt(0), <<4, 5>>),
               V4(1, 0, 0, 0)>>

\* Quaternions as a file may hold them: of any length
RawQuats == <<V4(0, 0, 0, 2), V4(0, 3, 0, 4), V4(0, 0, 0, 0), V4(0, 0, -1, 0)>>

QuatKeys(ts, values) ==
    [i \in 1..Len(ts) |->
        Key(ts[i], values[((i - 1) % Len(values)) + 1], V4(0, 0, 0, 1), V4(0, 1, 0, 0))]

Interps == InterpNone..(InterpBezier + 1)
GlobalSeqIds == {-1, 0, 1, 5}

Tracks(keys) ==
    {[interp |-> i, globalSeqId |-> g, keys |-> k] :
        i \in Interps, g \in GlobalSeqIds, k \in keys}

InitSample ==
    /\ trackType \in {"float", "Vec3", "Vec4"}
    /\ track \in CASE trackType = "float" -> Tracks({FloatKeys(ts) : ts \in OrderedKeyTimes})
                   [] trackType = "Vec3" -> Tracks({Vec3Keys(ts) : ts \in OrderedKeyTimes})
                   [] OTHER -> Tracks({QuatKeys(ts, v) : ts \in OrderedKeyTimes,
                                                        v \in {UnitQuats, RawQuats}})
    /\ seqLens = <<3, 0>>
    /\ timeMs \in 0..(MaxTime + 1)
    /\ sampled = <<>>
    /\ sampleDone = FALSE
    /\ LoadIdle
    /\ EvalIdle
    /\ ViewIdle

SampleFloat ==
    /\ ~sampleDone
    /\ trackType = "float"
    /\ sampled' = sampleTrackFloat(track, timeMs, RInt(0), seqLens)
    /\ sampleDone' = TRUE
    /\ UNCHANGED <<trackType, track, seqLens, timeMs, loadVars, evalVars, viewVars>>

SampleVec3 ==
    /\ ~sampleDone
    /\ trackType = "Vec3"
    /\ sampled' = sampleTrackVec3(track, timeMs, V3(0, 0, 0), seqLens)
    /\ sampleDone' = TRUE
    /\ UNCHANGED <<trackType, track, seqLens, timeMs, loadVars, evalVars, viewVars>>

SampleQuat ==
    /\ ~sampleDone
    /\ trackType = "Vec4"
    /\ sampled' = sampleTrackQuat(track, timeMs, V4(0, 0, 0, 1), seqLens)
    /\ sampleDone' = TRUE
    /\ UNCHANGED <<trackType, track, seqLens, timeMs, loadVars, evalVars, viewVars>>

NextSample ==
    \/ SampleFloat
    \/ SampleVec3
    \/ SampleQuat

SpecSample == InitSample /\ [][NextSample]_vars

----------------------------------------------------------------------------
(* The sampler's clamping                                                  *)

FirstKey == track.keys[1]
LastKey == track.keys[Len(track.keys)]

\* The track runs on a global sequence of the document that has a duration
OnGlobalSequence ==
    /\ track.globalSeqId \in 0..(Len(seqLens) - 1)
    /\ seqLens[track.globalSeqId + 1] > 0

\* The time the keys are compared with
EffectiveTime ==
    IF OnGlobalSequence THEN timeMs % seqLens[track.globalSeqId + 1] ELSE timeMs

\* q is the quaternion of length 1 in the direction of v, or (0, 0, 0, 1) for v = 0
UnitOf(q, v) ==
    /\ IsVec4(q)
    /\ IF dotQuat(v, v) = RInt(0) THEN q = V4(0, 0, 0, 1)
       ELSE /\ dotQuat(q, q) = RInt(1)
            /\ RLess(RInt(0), dotQuat(q, v))
            /\ \A f, g \in {"x", "y", "z", "w"} : RMul(q[f], v[g]) = RMul(q[g], v[f])

\* The sample is the value the key stores: as it is for a float or a vector,
\* scaled to length 1 for a quaternion
ClampedTo(key) ==
    IF trackType = "Vec4" THEN UnitOf(sampled, key.value) ELSE sampled = key.value

----------------------------------------------------------------------------
(* The node transform evaluator (GLModelView::buildNodeWorldCached).        *)
(* A QVector3D is a triple of floats, a QQuaternion a Vec4, a QMatrix4x4    *)
(* the affine map [m, t]: p |-> m * p + t, with m of three rows; every     *)
(* matrix the evaluator builds has the last row (0, 0, 0, 1).               *)

NODE_DONT_INHERIT_TRANSLATION == 1
NODE_DONT_INHERIT_SCALING == 2
NODE_DONT_INHERIT_ROTATION == 4

\* "(n.flags & bit) != 0" for a bit that is a power of two
HasFlag(flags, bit) == (flags \div bit) % 2 = 1

RSum3(a, b, c) == RAdd(RAdd(a, b), c)
RAbs(a) == <<Abs(a[1]), a[2]>>

V3Add(a, b) == <<RAdd(a[1], b[1]), RAdd(a[2], b[2]), RAdd(a[3], b[3])>>
V3Neg(a) == <<RNeg(a[1]), RNeg(a[2]), RNeg(a[3])>>
V3Mul(a, b) == <<RMul(a[1], b[1]), RMul(a[2], b[2]), RMul(a[3], b[3])>>

M3Dot(row, v) == RSum3(RMul(row[1], v[1]), RMul(row[2], v[2]), RMul(row[3], v[3]))
M3Vec(m, v) == <<M3Dot(m[1], v), M3Dot(m[2], v), M3Dot(m[3], v)>>
M3Col(m, j) == <<m[1][j], m[2][j], m[3][j]>>
M3Row(row, b) == <<M3Dot(row, M3Col(b, 1)), M3Dot(row, M3Col(b, 2)), M3Dot(row, M3Col(b, 3))>>
M3Mul(a, b) == <<M3Row(a[1], b), M3Row(a[2], b), M3Row(a[3], b)>>

Mat(m, t) == [m |-> m, t |-> t]
\* QMatrix4x4::setToIdentity
Identity4x4 == Mat(<<V3(1, 0, 0), V3(0, 1, 0), V3(0, 0, 1)>>, V3(0, 0, 0))
\* QMatrix4x4 operator*: the product of two matrices that have been computed
MatMul(a, b) ==
    CHOOSE c \in {Mat(M3Mul(x.m, y.m), V3Add(M3Vec(x.m, y.t), x.t)) : x \in {a}, y \in {b}} :
        TRUE
\* "worldM * QVector4D(pivot, 1.0f)", its x, y, z
MatPoint(a, p) == V3Add(M3Vec(a.m, p), a.t)

\* QMatrix4x4::translate(v): the matrix times the translation by v
translate(a, v) == MatMul(a, Mat(Identity4x4.m, v))
\* QMatrix4x4::scale(v): the matrix times the scaling by v
scale(a, v) ==
    MatMul(a, Mat(<<<<v[1], RInt(0), RInt(0)>>, <<RInt(0), v[2], RInt(0)>>,
                    <<RInt(0), RInt(0), v[3]>>>>, V3(0, 0, 0)))

\* 1 - 2 * (a + b) and 2 * (a + b), the entries of a rotation matrix
RotDiag(a, b) == RSub(RInt(1), RMul(RInt(2), RAdd(a, b)))
RotOff(a, b) == RMul(RInt(2), RAdd(a, b))

\* The rotation by the quaternion q of length 1, as a matrix
RotationMatrix(q) ==
    Mat(<<<<RotDiag(RMul(q.y, q.y), RMul(q.z, q.z)),
            RotOff(RMul(q.x, q.y), RNeg(RMul(q.z, q.w))),
            RotOff(RMul(q.x, q.z), RMul(q.y, q.w))>>,
          <<RotOff(RMul(q.x, q.y), RMul(q.z, q.w)),
            RotDiag(RMul(q.x, q.x), RMul(q.z, q.z)),
            RotOff(RMul(q.y, q.z), RNeg(RMul(q.x, q.w)))>>,
          <<RotOff(RMul(q.x, q.z), RNeg(RMul(q.y, q.w))),
            RotOff(RMul(q.y, q.z), RMul(q.x, q.w)),
            RotDiag(RMul(q.x, q.x), RMul(q.y, q.y))>>>>,
        V3(0, 0, 0))

\* QMatrix4x4::rotate(q): the matrix times the rotation by q
rotate(a, q) == MatMul(a, CHOOSE r \in {RotationMatrix(p) : p \in {q}} : TRUE)

\* QQuaternion(scalar, x, y, z)
QQuaternion(w, x, y, z) == Vec4(x, y, z, w)

RSum4(a, b, c, d) == RAdd(RAdd(a, b), RAdd(c, d))

\* QQuaternion operator*
QuatMul(a, b) ==
    QQuaternion(
        RSum4(RMul(a.w, b.w), RNeg(RMul(a.x, b.x)), RNeg(RMul(a.y, b.y)), RNeg(RMul(a.z, b.z))),
        RSum4(RMul(a.w, b.x), RMul(a.x, b.w), RMul(a.y, b.z), RNeg(RMul(a.z, b.y))),
        RSum4(RMul(a.w, b.y), RNeg(RMul(a.x, b.z)), RMul(a.y, b.w), RMul(a.z, b.x)),
        RSum4(RMul(a.w, b.z), RMul(a.x, b.y), RNeg(RMul(a.y, b.x)), RMul(a.z, b.w)))

\* QQuaternion::conjugated
conjugated(q) == QQuaternion(q.w, RNeg(q.x), RNeg(q.y), RNeg(q.z))

\* QQuaternion::normalize with the squared length computed: a quaternion of
\* length 1 or 0 is left as it is
normalizeLen(q, lenSq) ==
    IF lenSq = RInt(1) \/ lenSq = RInt(0) THEN q ELSE normalizeBy(q, lenSq)

normalize(q) == CHOOSE c \in {normalizeLen(p, dotQuat(p, p)) : p \in {q}} : TRUE

\* "(std::fabs(v) > 1e-8f) ? (1.0f / v) : 0.0f"
invSafe(v) == IF RLess(<<1, 100000000>>, RAbs(v)) THEN RDiv(RInt(1), v) ELSE RInt(0)

\* What the seven arrays hold for a node
WorldOf(worldM, wl, worldRot, ws) ==
    [Mat |-> worldM, Loc |-> wl, InvLoc |-> V3Neg(wl), Rot |-> worldRot,
     InvRot |-> conjugated(worldRot), Scale |-> ws,
     InvScale |-> <<invSafe(ws[1]), invSafe(ws[2]), invSafe(ws[3])>>]

\* What the arrays are assigned at first, what a node reached again while in
\* progress gets, and what a node without a usable parent takes as its parent
IdentityWorld == WorldOf(Identity4x4, V3(0, 0, 0), QQuaternion(RInt(1), RInt(0), RInt(0), RInt(0)), V3(1, 1, 1))

\* A parent test that lets a node be its own parent
hasParent_OwnIndex(n, idx, nodeCount) ==
    n.parentId >= 0 /\ n.parentId < nodeCount

\* "n.parentId >= 0 && std::size_t(n.parentId) < nodeCount && n.parentId != int(idx)"
hasParent(n, idx, nodeCount) ==
    n.parentId >= 0 /\ n.parentId < nodeCount /\ n.parentId # idx

computedLoc(n, parent, oldWorldLoc, localLoc) ==
    IF HasFlag(n.flags, NODE_DONT_INHERIT_TRANSLATION)
    THEN V3Add(V3Add(parent.InvLoc, oldWorldLoc), localLoc)
    ELSE localLoc

\* A scale that is inherited whatever the flags say
computedScale_Inherited(n, parent, localScale) == localScale

computedScale(n, parent, localScale) ==
    IF HasFlag(n.flags, NODE_DONT_INHERIT_SCALING) THEN V3Mul(parent.InvScale, localScale)
    ELSE localScale

computedRot(n, parent, localRot) ==
    IF HasFlag(n.flags, NODE_DONT_INHERIT_ROTATION) THEN QuatMul(parent.InvRot, localRot)
    ELSE localRot

\* localM: translate(computedLoc), translate(pivot), rotate, scale, translate(-pivot)
localM(cLoc, pivot, cRot, cScale) ==
    translate(scale(rotate(translate(translate(Identity4x4, cLoc), pivot), cRot), cScale),
              V3Neg(pivot))

nodeCount == Len(model_.nodes)

\* The call of buildNode that is running, and the node it is for
TopFrame == Head(stack)
TopNode == model_.nodes[TopFrame.idx + 1]

\* A call of buildNode returns: to its caller, or to the loop, which goes on
ReturnFromNode ==
    /\ stack' = Tail(stack)
    /\ loopI' = IF Len(stack) = 1 THEN loopI + 1 ELSE loopI

MaxEvals == 2
QueryTimes == {0, 1}

\* "state[idx] == 2"
AlreadyDone_Never(st, idx) == FALSE

AlreadyDone(st, idx) == st[idx + 1] = 2

\* buildNodeWorldCached is called: the arrays are assigned only when their size
\* is not the node count, state is all 0
EvalBegin ==
    /\ evalPc = "idle"
    /\ evalCount < MaxEvals
    /\ nodeCount > 0
    /\ \E t \in QueryTimes : globalTimeMs' = t
    /\ nodeWorld' = IF Len(nodeWorld) # nodeCount
                    THEN [i \in 1..nodeCount |-> IdentityWorld]
                    ELSE nodeWorld
    /\ state' = [i \in 1..nodeCount |-> 0]
    /\ bodyCount' = [i \in 1..nodeCount |-> 0]
    /\ loopI' = 0
    /\ stack' = <<>>
    /\ evalPc' = "loop"
    /\ evalCount' = evalCount + 1
    /\ UNCHANGED <<model_, seen, loadVars, sampleVars, viewVars>>

\* "for (i = 0; i < nodeCount; ++i) buildNode(buildNode, i)": the call
LoopCall ==
    /\ evalPc = "loop"
    /\ stack = <<>>
    /\ loopI < nodeCount
    /\ stack' = <<[idx |-> loopI, at |-> "entry"]>>
    /\ UNCHANGED <<model_, globalTimeMs, evalPc, state, loopI, nodeWorld, bodyCount,
                   evalCount, seen, loadVars, sampleVars, viewVars>>

\* buildNode: "if (state[idx] == 2) return"
EnterDone ==
    /\ evalPc = "loop"
    /\ stack # <<>>
    /\ TopFrame.at = "entry"
    /\ AlreadyDone(state, TopFrame.idx)
    /\ ReturnFromNode
    /\ UNCHANGED <<model_, globalTimeMs, evalPc, state, nodeWorld, bodyCount,
                   evalCount, seen, loadVars, sampleVars, viewVars>>

\* buildNode: "if (state[idx] == 1)": the node is in progress; it gets the
\* identity and is done
EnterInProgress ==
    /\ evalPc = "loop"
    /\ stack # <<>>
    /\ TopFrame.at = "entry"
    /\ ~AlreadyDone(state, TopFrame.idx)
    /\ state[TopFrame.idx + 1] = 1
    /\ nodeWorld' = [nodeWorld EXCEPT ![TopFrame.idx + 1] = IdentityWorld]
    /\ state' = [state EXCEPT ![TopFrame.idx + 1] = 2]
    /\ ReturnFromNode
    /\ UNCHANGED <<model_, globalTimeMs, evalPc, bodyCount, evalCount, seen,
                   loadVars, sampleVars, viewVars>>

\* buildNode: "state[idx] = 1", and the call for the parent if it has one
EnterNew ==
    /\ evalPc = "loop"
    /\ stack # <<>>
    /\ TopFrame.at = "entry"
    /\ ~AlreadyDone(state, TopFrame.idx)
    /\ state[TopFrame.idx + 1] # 1
    /\ state' = [state EXCEPT ![TopFrame.idx + 1] = 1]
    /\ stack' = IF hasParent(TopNode, TopFrame.idx, nodeCount)
                THEN <<[idx |-> TopNode.parentId, at |-> "entry"],
                       [idx |-> TopFrame.idx, at |-> "body"]>> \o Tail(stack)
                ELSE <<[idx |-> TopFrame.idx, at |-> "body"]>> \o Tail(stack)
    /\ UNCHANGED <<model_, globalTimeMs, evalPc, loopI, nodeWorld, bodyCount,
                   evalCount, seen, loadVars, sampleVars, viewVars>>

\* What buildNode reads for the parent of node n, the node idx
parentWorldOf(n, idx) ==
    IF hasParent(n, idx, nodeCount) THEN nodeWorld[n.parentId + 1] ELSE IdentityWorld

\* "QQuaternion localRot(r.w, r.x, r.y, r.z); localRot.normalize()"
localRotOf(r) == normalize(QQuaternion(r.w, r.x, r.y, r.z))

\* What the rest of the body does to the control state: "state[idx] = 2" and
\* the return
NodeBodyControl ==
    /\ evalPc = "loop"
    /\ stack # <<>>
    /\ TopFrame.at = "body"
    /\ state' = [state EXCEPT ![TopFrame.idx + 1] = 2]
    /\ ReturnFromNode
    /\ UNCHANGED evalPc

\* buildNode: the rest of the body, once the call for the parent has returned;
\* each local of the code is computed once and bound
NodeBody ==
    /\ NodeBodyControl
    /\ \E n \in {TopNode} :
       \E parent \in {parentWorldOf(n, TopFrame.idx)},
          oldWorldLoc \in {nodeWorld[TopFrame.idx + 1].Loc},
          t \in {sampleTrackVec3(n.trackTranslation, globalTimeMs, V3(0, 0, 0),
                                 model_.globalSequencesMs)},
          s \in {sampleTrackVec3(n.trackScaling, globalTimeMs, V3(1, 1, 1),
                                 model_.globalSequencesMs)},
          r \in {sampleTrackQuat(n.trackRotation, globalTimeMs, V4(0, 0, 0, 1),
                                 model_.globalSequencesMs)} :
       \E localRot \in {localRotOf(r)} :
       \E cLoc \in {computedLoc(n, parent, oldWorldLoc, t)},
          cScale \in {computedScale(n, parent, s)},
          cRot \in {computedRot(n, parent, localRot)} :
       \E worldM \in {MatMul(parent.Mat, localM(cLoc, n.pivot, cRot, cScale))},
          worldRot \in {normalize(QuatMul(parent.Rot, cRot))},
          ws \in {V3Mul(parent.Scale, cScale)} :
       \E wl \in {MatPoint(worldM, n.pivot)} :
          nodeWorld' = [nodeWorld EXCEPT ![TopFrame.idx + 1] =
                           WorldOf(worldM, wl, worldRot, ws)]
    /\ bodyCount' = [bodyCount EXCEPT ![TopFrame.idx + 1] = @ + 1]
    /\ UNCHANGED <<model_, globalTimeMs, evalCount, seen, loadVars, sampleVars, viewVars>>

WorldMats == [i \in 1..Len(nodeWorld) |-> nodeWorld[i].Mat]

\* buildNodeWorldCached returns
EvalReturn ==
    /\ evalPc = "loop"
    /\ stack = <<>>
    /\ loopI >= nodeCount
    /\ evalPc' = "idle"
    /\ seen' = IF seen[globalTimeMs].set THEN seen
               ELSE [seen EXCEPT ![globalTimeMs] = [set |-> TRUE, mats |-> WorldMats]]
    /\ UNCHANGED <<model_, globalTimeMs, state, stack, loopI, nodeWorld, bodyCount,
                   evalCount, loadVars, sampleVars, viewVars>>

----------------------------------------------------------------------------
(* Documents to evaluate                                                   *)

MaxNodes == 3

\* The inheritance flags the nodes of a document may carry
NodeFlags == {0, NODE_DONT_INHERIT_TRANSLATION,
              NODE_DONT_INHERIT_TRANSLATION + NODE_DONT_INHERIT_SCALING
                  + NODE_DONT_INHERIT_ROTATION}

NoTrack == [interp |-> InterpNone, globalSeqId |-> -1, keys |-> <<>>]

\* Node i moves from (i, 0, 0) at time 0 to (0, i, 0) at time 2
TranslationOf(i) ==
    [interp |-> InterpLinear, globalSeqId |-> -1,
     keys |-> <<Key(0, V3(i, 0, 0), V3(0, 0, 0), V3(0, 0, 0)),
                Key(2, V3(0, i, 0), V3(0, 0, 0), V3(0, 0, 0))>>]

\* Every second node is turned by half a turn about the z axis
RotationOf(i) ==
    IF i % 2 = 1
    THEN [interp |-> InterpNone, globalSeqId |-> -1,
          keys |-> <<Key(0, V4(0, 0, 1, 0), V4(0, 0, 0, 1), V4(0, 0, 0, 1))>>]
    ELSE NoTrack

\* The other nodes are scaled by 2
ScalingOf(i) ==
    IF i % 2 = 0
    THEN [interp |-> InterpNone, globalSeqId |-> -1,
          keys |-> <<Key(0, V3(2, 2, 2), V3(0, 0, 0), V3(0, 0, 0))>>]
    ELSE NoTrack

EvalNode(i, parentId, flags) ==
    [type |-> "BONE", nodeId |-> i - 1, parentId |-> parentId, flags |-> flags,
     pivot |-> V3(0, i, 0), trackTranslation |-> TranslationOf(i),
     trackRotation |-> RotationOf(i), trackScaling |-> ScalingOf(i)]

\* Node arrays of n nodes: every parentId from -1 to n for every node, and the
\* same flags on all of them
NodeArrays(n) ==
    {[i \in 1..n |-> EvalNode(i, parents[i], flags)] :
        parents \in [1..n -> -1..n], flags \in NodeFlags}

EvalDocs ==
    {[nodes |-> ns, globalSequencesMs |-> <<>>] :
        ns \in UNION {NodeArrays(n) : n \in 1..MaxNodes}}

InitEval ==
    /\ model_ \in EvalDocs
    /\ globalTimeMs = 0
    /\ evalPc = "idle"
    /\ state = <<>>
    /\ stack = <<>>
    /\ loopI = 0
    /\ nodeWorld = <<>>
    /\ bodyCount = <<>>
    /\ evalCount = 0
    /\ seen = [t \in QueryTimes |-> [set |-> FALSE, mats |-> <<>>]]
    /\ LoadIdle
    /\ seqLens = <<>>
    /\ SampleIdle
    /\ ViewIdle

\* The control state of an evaluation, and the steps of one as they act on it
evalControl == <<evalPc, state, stack, loopI>>

EvalControlStep ==
    \/ LoopCall
    \/ EnterDone
    \/ EnterInProgress
    \/ EnterNew
    \/ NodeBodyControl
    \/ EvalReturn

NextEval ==
    \/ EvalBegin
    \/ LoopCall
    \/ EnterDone
    \/ EnterInProgress
    \/ EnterNew
    \/ NodeBody
    \/ EvalReturn

SpecEval == InitEval /\ [][NextEval]_vars

\* buildNodeWorldCached is sequential code: once called it runs on, so the
\* step its control state allows is taken
SpecEvalFair == SpecEval /\ WF_evalControl(EvalControlStep)

----------------------------------------------------------------------------
(* The evaluator's contracts                                               *)

Returned == evalPc = "idle" /\ evalCount > 0

\* Nodes a and b (0-based) are each other's parent
TwoCycle(a, b) ==
    /\ a # b
    /\ model_.nodes[a + 1].parentId = b
    /\ model_.nodes[b + 1].parentId = a

\* C7: when node A's parent is B and B's parent is A, the evaluation returns
\* and the world transforms stored for A and for B are then both the identity,
\* whatever tracks and pivots the two nodes carry.
C7_CycleYieldsIdentity ==
    Returned =>
        \A a, b \in 0..(nodeCount - 1) :
            TwoCycle(a, b) => /\ nodeWorld[a + 1].Mat = Identity4x4
                              /\ nodeWorld[b + 1].Mat = Identity4x4

\* C8: the evaluation returns for every node array and every assignment of
\* parentId values (negative, out of range, the node's own id, cycles); at
\* return every node's visit state is done (2), and no node's body has been
\* computed more than once in the evaluation.
C8_EvaluationTerminates ==
    /\ [](Returned => \A i \in 1..nodeCount : state[i] = 2)
    /\ [](\A i \in 1..Len(bodyCount) : bodyCount[i] <= 1)
    /\ ((evalPc = "loop") ~> (evalPc = "idle"))

\* C8 is about a returned evaluation of a malformed parent graph: three nodes
\* in a cycle of length three, each done with its body computed once
C8_ThreeCycleEvaluated ==
    /\ Returned
    /\ nodeCount = 3
    /\ [i \in 1..3 |-> model_.nodes[i].parentId] = <<1, 2, 0>>
    /\ \A i \in 1..3 : state[i] = 2 /\ bodyCount[i] = 1

\* C9: two evaluations of the same document at the same query time produce
\* the same per-node world transforms, whatever evaluations came before them
\* and whatever inheritance flags the nodes carry: the transforms an
\* evaluation returns are those the first evaluation at its time returned.
C9_EvaluatorStateless ==
    Returned => WorldMats = seen[globalTimeMs].mats

----------------------------------------------------------------------------
(* Vertex skinning: GLModelView::updateSkinning.  A ModelVertex is          *)
(* [p, n, uv]: position, normal and texture coordinate.  The document of    *)
(* the view carries bindVertices, vertexGroups, skinGroups (each the        *)
(* nodeIndices of a SkinGroup) and boneNodeIds next to its nodes.           *)

ModelVertex(p, n, uv) == [p |-> p, n |-> n, uv |-> uv]

\* "m * n4" for n4 = (n, 0): the translation of m takes no part
MatDir(a, n) == M3Vec(a.m, n)

\* What buildNodeWorldCached is called with for the bind pose
tBind ==
    IF "sequences" \in DOMAIN model_ /\ model_.sequences # <<>>
    THEN model_.sequences[1].startMs ELSE 0

\* buildNodeWorldCached up to its loop, for the time t: the arrays are
\* assigned only when their size is not the node count, state is all 0
EnterBuildNodeWorldCached(t) ==
    /\ evalPc = "idle"
    /\ globalTimeMs' = t
    /\ nodeWorld' = IF Len(nodeWorld) # nodeCount
                    THEN [i \in 1..nodeCount |-> IdentityWorld]
                    ELSE nodeWorld
    /\ state' = [i \in 1..nodeCount |-> 0]
    /\ bodyCount' = [i \in 1..nodeCount |-> 0]
    /\ loopI' = 0
    /\ stack' = <<>>
    /\ evalPc' = "loop"
    /\ evalCount' = evalCount + 1

\* "boneWorld[bi]": the world matrix of the node the bone names, or the identity
boneWorld(boneNodeIds, mats) ==
    [bi \in 1..Len(boneNodeIds) |->
        IF boneNodeIds[bi] >= 0 /\ boneNodeIds[bi] < Len(mats)
        THEN mats[boneNodeIds[bi] + 1] ELSE Identity4x4]

boneMapIsIdentity(boneNodeIds) ==
    /\ boneNodeIds # <<>>
    /\ \A i \in 1..Len(boneNodeIds) : boneNodeIds[i] = i - 1

\* "if (idx > maxIdx) maxIdx = idx" over every index of every group
maxIdx(skinGroups) ==
    LET all == {-1} \cup UNION {{g[k] : k \in 1..Len(g)} :
                                   g \in {skinGroups[j] : j \in 1..Len(skinGroups)}}
    IN  CHOOSE m \in all : \A x \in all : x <= m

skinIndicesAreBoneIndices(doc, bones) ==
    /\ boneMapIsIdentity(doc.boneNodeIds)
    /\ bones # <<>>
    /\ ~(maxIdx(doc.skinGroups) >= Len(bones))

\* "skinIndicesAreBoneIndices ? boneWorld : nodeWorldMat_"
skinMatsOf(doc, bones, mats) ==
    IF skinIndicesAreBoneIndices(doc, bones) THEN bones ELSE mats

skinMats(doc, mats) == skinMatsOf(doc, boneWorld(doc.boneNodeIds, mats), mats)

\* "(group.nodeIndices.size() > 4) ? 8 : 4"
maxBones(group) == IF Len(group) > 4 THEN 8 ELSE 4

boneNumber(group) == Min(Len(group), maxBones(group))

\* "boneIndex < 0 || std::size_t(boneIndex) >= skinMats.size()" does not hold
BoneResolves(boneIndex, mats) == boneIndex >= 0 /\ boneIndex < Len(mats)

\* The loop of skinAverage from entry i (0-based) on: [P, N], sumP and sumN
RECURSIVE skinSum(_, _, _, _, _, _)
skinSum(i, group, mats, base, sumP, sumN) ==
    IF i >= boneNumber(group) THEN [P |-> sumP, N |-> sumN]
    ELSE IF ~BoneResolves(group[i + 1], mats)
         THEN skinSum(i + 1, group, mats, base, sumP, sumN)
         ELSE skinSum(i + 1, group, mats, base,
                      V3Add(sumP, MatPoint(mats[group[i + 1] + 1], base.p)),
                      V3Add(sumN, MatDir(mats[group[i + 1] + 1], base.n)))

\* QVector3D::normalize for a vector of squared length lenSq
normalizeVec3By(v, lenSq) ==
    IF lenSq = RInt(1) THEN v
    ELSE IF Roots(lenSq[1]) = {} \/ Roots(lenSq[2]) = {} THEN [normalized |-> v]
    ELSE V3Mul(v, <<Rat(CHOOSE k \in Roots(lenSq[2]) : TRUE, CHOOSE k \in Roots(lenSq[1]) : TRUE),
                    Rat(CHOOSE k \in Roots(lenSq[2]) : TRUE, CHOOSE k \in Roots(lenSq[1]) : TRUE),
                    Rat(CHOOSE k \in Roots(lenSq[2]) : TRUE, CHOOSE k \in Roots(lenSq[1]) : TRUE)>>)

\* "if (nn.lengthSquared() > 0.000001f) nn.normalize(); else nn = QVector3D(0,0,1)"
skinNormalOf(nn, lenSq) ==
    IF RLess(<<1, 1000000>>, lenSq) THEN normalizeVec3By(nn, lenSq) ELSE V3(0, 0, 1)

skinNormal(nn) == skinNormalOf(nn, M3Dot(nn, nn))

\* skinAverage once the sums are there: "inv = 1.0f / float(boneNumber)"
skinAverageOf(base, group, sum) ==
    ModelVertex(V3Mul(sum.P, <<Rat(1, boneNumber(group)), Rat(1, boneNumber(group)),
                               Rat(1, boneNumber(group))>>),
                skinNormal(sum.N), base.uv)

\* skinAverage: [ok, v], what it returns and the outV it has written
skinAverage(base, group, mats) ==
    IF mats = <<>> \/ boneNumber(group) <= 0 THEN [ok |-> FALSE, v |-> base]
    ELSE [ok |-> TRUE,
          v |-> skinAverageOf(base, group,
                              skinSum(0, group, mats, base, V3(0, 0, 0), V3(0, 0, 0)))]

\* What skinAverage gave for a vertex: "if (skinAverage(base, group, v))"
skinResult(base, res) == IF res.ok THEN res.v ELSE base

\* The body of the loop over bindVertices for vertex i (1-based)
skinVertex(doc, i, mats) ==
    IF i > Len(doc.vertexGroups) THEN doc.bindVertices[i]
    ELSE IF doc.vertexGroups[i] >= Len(doc.skinGroups) THEN doc.bindVertices[i]
    ELSE IF doc.skinGroups[doc.vertexGroups[i] + 1] = <<>> THEN doc.bindVertices[i]
    ELSE skinResult(doc.bindVertices[i],
                    skinAverage(doc.bindVertices[i],
                                doc.skinGroups[doc.vertexGroups[i] + 1], mats))

\* The early returns of updateSkinning do not hold
CanSkin ==
    /\ model_.bindVertices # <<>>
    /\ Len(model_.vertexGroups) = Len(model_.bindVertices)
    /\ model_.skinGroups # <<>>
    /\ model_.nodes # <<>>
    /\ vbo_ # 0

MaxSkins == 2

\* updateSkinning up to the loop of buildNodeWorldCached, which it calls
UpdateSkinningCall ==
    /\ viewPc = "idle"
    /\ skinCount < MaxSkins
    /\ CanSkin
    /\ skinnedVertices_' = IF Len(skinnedVertices_) # Len(model_.bindVertices)
                           THEN model_.bindVertices ELSE skinnedVertices_
    /\ \E t \in QueryTimes : EnterBuildNodeWorldCached(t)
    /\ viewPc' = "updateSkinning"
    /\ UNCHANGED <<model_, seen, vbo_, skinCount, emitVars, loadVars, sampleVars, hostVars>>

\* updateSkinning once buildNodeWorldCached has returned: the matrices to skin
\* with and the loop over the vertices
SkinVertices ==
    /\ viewPc = "updateSkinning"
    /\ evalPc = "idle"
    /\ \E mats \in {skinMats(model_, WorldMats)} :
          skinnedVertices_' = [i \in 1..Len(model_.bindVertices) |->
                                  skinVertex(model_, i, mats)]
    /\ viewPc' = "idle"
    /\ skinCount' = skinCount + 1
    /\ UNCHANGED <<vbo_, emitVars, evalVars, loadVars, sampleVars, hostVars>>

----------------------------------------------------------------------------
(* Meshes to skin                                                          *)

\* A node without tracks: its local transform is the identity at every time
StillNode(i, parentId) ==
    [type |-> "BONE", nodeId |-> i - 1, parentId |-> parentId, flags |-> 0,
     pivot |-> V3(0, i, 0), trackTranslation |-> NoTrack,
     trackRotation |-> NoTrack, trackScaling |-> NoTrack]

\* Two nodes, each animated or still; the second is a root or a child of the
\* first, and the first may be the child of the second
SkinNodeArrays ==
    {<<n1, n2>> : n1 \in {EvalNode(1, -1, 0), EvalNode(1, 1, 0), StillNode(1, -1)},
                  n2 \in {EvalNode(2, -1, 0), EvalNode(2, 0, 0), StillNode(2, 0)}}

\* The nodeIndices of a skin group: none, one, several, repeated, negative,
\* beyond the nodes, and more than four
SkinGroupChoices ==
    {<<>>, <<0>>, <<1>>, <<0, 1>>, <<0, 0>>, <<-1>>, <<5>>, <<0, 5>>, <<1, 0, 1, 0, 1>>}

SkinVertexArray ==
    <<ModelVertex(V3(1, 0, 0), V3(0, 0, 1), <<RInt(0), RInt(0)>>),
      ModelVertex(V3(0, 2, 0), V3(0, 0, 1), <<RInt(1), RInt(0)>>)>>

\* Documents as LoadFromBytes leaves them: bindVertices, a group id for each
\* vertex (the second may name no group), and boneNodeIds, which it never fills
SkinDocs ==
    {[nodes |-> ns, globalSequencesMs |-> <<>>, bindVertices |-> SkinVertexArray,
      vertexGroups |-> vg, skinGroups |-> <<g, <<1>>>>, boneNodeIds |-> <<>>] :
        ns \in SkinNodeArrays, vg \in {<<0, 1>>, <<0, 2>>}, g \in SkinGroupChoices}

InitSkin ==
    /\ model_ \in SkinDocs
    /\ globalTimeMs = 0
    /\ evalPc = "idle"
    /\ state = <<>>
    /\ stack = <<>>
    /\ loopI = 0
    /\ nodeWorld = <<>>
    /\ bodyCount = <<>>
    /\ evalCount = 0
    /\ seen = [t \in QueryTimes |-> [set |-> FALSE, mats |-> <<>>]]
    /\ viewPc = "idle"
    /\ vbo_ \in {0, 1}
    /\ skinnedVertices_ = <<>>
    /\ skinCount = 0
    /\ EmitIdle
    /\ HostIdle
    /\ LoadIdle
    /\ seqLens = <<>>
    /\ SampleIdle

NextSkin ==
    \/ UpdateSkinningCall
    \/ LoopCall
    \/ EnterDone
    \/ EnterInProgress
    \/ EnterNew
    \/ NodeBody
    \/ EvalReturn
    \/ SkinVertices

SpecSkin == InitSkin /\ [][NextSkin]_vars

----------------------------------------------------------------------------
(* The skinning contracts                                                  *)

\* A skinning pass has finished
Skinned == viewPc = "idle" /\ skinCount > 0

\* The group of vertex i (1-based), when its group id names one
GroupOf(i) == model_.skinGroups[model_.vertexGroups[i] + 1]
HasGroup(i) == model_.vertexGroups[i] < Len(model_.skinGroups)

\* The entries of a group that skinAverage looks at and that resolve
ValidEntries(group) ==
    {k \in 1..boneNumber(group) : BoneResolves(group[k], skinMats(model_, WorldMats))}

\* C11: after a skinning pass with the node transforms of the bind-pose time,
\* a vertex whose skin group has exactly one valid bone index has its bind
\* position, whatever transform the tracks of that bone give at that time.
C11_SingleBoneKeepsBindPosition ==
    (Skinned /\ globalTimeMs = tBind) =>
        \A i \in 1..Len(model_.bindVertices) :
            (HasGroup(i) /\ Cardinality(ValidEntries(GroupOf(i))) = 1) =>
                skinnedVertices_[i].p = model_.bindVertices[i].p

\* The bones a group uses: the distinct indices among its valid entries
UsedBones(group) == {group[k] : k \in ValidEntries(group)}

\* The sum of the position p transformed by each bone of a set
RECURSIVE SumOverBones(_, _, _)
SumOverBones(bones, mats, p) ==
    IF bones = {} THEN V3(0, 0, 0)
    ELSE LET b == CHOOSE x \in bones : TRUE
         IN  V3Add(MatPoint(mats[b + 1], p), SumOverBones(bones \ {b}, mats, p))

\* The average of p over the bones a group uses
AverageOverUsed(group, p) ==
    LET n == Cardinality(UsedBones(group))
    IN  V3Mul(SumOverBones(UsedBones(group), skinMats(model_, WorldMats), p),
              <<Rat(1, n), Rat(1, n), Rat(1, n)>>)

\* C18: after a skinning pass, the position of a vertex whose group uses at
\* least one bone is the sum of its bind position transformed by each bone
\* used, divided by the number of bones used; the bones used are the
\* distinct indices among the first maxBones entries that resolve to a
\* transform, so a repeated or unresolved index counts in neither.
C18_AverageOverUsedBones ==
    Skinned =>
        \A i \in 1..Len(model_.bindVertices) :
            (HasGroup(i) /\ UsedBones(GroupOf(i)) # {}) =>
                skinnedVertices_[i].p = AverageOverUsed(GroupOf(i), model_.bindVertices[i].p)

\* C19: after a skinning pass, a vertex whose group has no usable bone (the
\* group is empty, or none of its considered entries resolves to a
\* transform) has the position and the normal of its bind pose.
C19_NoUsableBoneKeepsBindPose ==
    Skinned =>
        \A i \in 1..Len(model_.bindVertices) :
            (HasGroup(i) /\ ValidEntries(GroupOf(i)) = {}) =>
                /\ skinnedVertices_[i].p = model_.bindVertices[i].p
                /\ skinnedVertices_[i].n = model_.bindVertices[i].n

----------------------------------------------------------------------------
(* Particle emitters                                                       *)
(* A particle keeps its age and its life; its position, velocity, gravity, *)
(* facing and tail type, and the random numbers they are drawn from, take  *)
(* no part in spawning, ageing or removal and are left out.  float and     *)
(* double values are exact rationals.                                      *)

clampf(v, lo, hi) == IF RLess(v, lo) THEN lo ELSE IF RLess(hi, v) THEN hi ELSE v

\* std::max on floats
RMax(a, b) == IF RLess(a, b) THEN b ELSE a

\* The conversion of a float that is not negative to an integer type
RTrunc(a) == a[1] \div a[2]

Sequence(startMs, endMs) == [startMs |-> startMs, endMs |-> endMs]

\* A clock that is not wrapped into the sequence
sequenceTime_Unwrapped(doc, cur, localTime) ==
    IF doc.sequences # <<>>
    THEN doc.sequences[Min(Len(doc.sequences) - 1, Max(0, cur)) + 1].startMs + localTime
    ELSE localTime

\* updateEmitters: the time it evaluates the model at
sequenceTime(doc, cur, localTime) ==
    IF doc.sequences # <<>>
    THEN LET seqIndex == Min(Len(doc.sequences) - 1, Max(0, cur))
             seq == doc.sequences[seqIndex + 1]
             start == seq.startMs
             end == Max(seq.endMs, seq.startMs + 1)
             len == end - start
             local == IF len # 0 THEN localTime % len ELSE 0
         IN  start + local
    ELSE localTime

\* A run of n particles as spawnParticle makes them
spawnParticle(id, n, lifespan) == [id |-> id, n |-> n, age |-> RInt(0), life |-> lifespan]

\* The particles in a vector
Size(ps) == IF ps = <<>> THEN 0 ELSE LET counts == [i \in 1..Len(ps) |-> ps[i].n]
                                          sum[i \in 0..Len(ps)] ==
                                              IF i = 0 THEN 0 ELSE sum[i - 1] + counts[i]
                                      IN  sum[Len(ps)]

emitVis(e, t, doc, force) ==
    IF force THEN RInt(1)
    ELSE clampf(sampleTrackFloat(e.trackVisibility, t, RInt(1), doc.globalSequencesMs),
                RInt(0), RInt(1))

emissionRate(e, t, doc) ==
    RMul(RMax(RInt(0), sampleTrackFloat(e.trackEmissionRate, t, e.emissionRate,
                                        doc.globalSequencesMs)),
         RInt(2))

lifespanOf(e, t, doc) ==
    RMax(<<1, 100>>, sampleTrackFloat(e.trackLifespan, t, e.lifespan, doc.globalSequencesMs))

\* The safety cap on the passes of the spawn loop in one tick
SpawnCap == 200

\* The particles one pass of the spawn loop pushes
pushesPerSpawn(e) ==
    (IF e.headOrTail = 0 \/ e.headOrTail = 2 THEN 1 ELSE 0)
    + (IF e.headOrTail = 1 \/ e.headOrTail = 2 THEN 1 ELSE 0)

\* The spawn loop: toSpawn passes, the particles appended behind the others
spawnLoop(ps, e, toSpawn, lifespan, nextId) ==
    IF toSpawn * pushesPerSpawn(e) > 0
    THEN Append(ps, spawnParticle(nextId, toSpawn * pushesPerSpawn(e), lifespan))
    ELSE ps

\* "Spawn particles" once the accumulator has been advanced to accum
spawnFrom(rt, e, accum, toSpawn, lifespan, nextId) ==
    IF toSpawn > 0
    THEN [spawnAccum |-> RSub(accum, RInt(toSpawn)),
          particles |-> spawnLoop(rt.particles, e, Min(toSpawn, SpawnCap), lifespan, nextId)]
    ELSE [spawnAccum |-> accum, particles |-> rt.particles]

\* "Spawn particles"
spawnParticles(rt, e, vis, rate, lifespan, dt, nextId) ==
    IF RLess(<<1, 1000>>, vis) /\ RLess(RInt(0), rate)
    THEN spawnFrom(rt, e, RAdd(rt.spawnAccum, RMul(rate, dt)),
                   RTrunc(RAdd(rt.spawnAccum, RMul(rate, dt))), lifespan, nextId)
    ELSE rt

\* "Update existing particles"
updateParticles(ps, dt) == [i \in 1..Len(ps) |-> [ps[i] EXCEPT !.age = RAdd(@, dt)]]

\* The predicate of remove_if
isDead(p) == ~RLess(p.age, p.life)

\* A removal that spares the particle whose age has just reached its life
removeDead_Late(ps) == SelectSeq(ps, LAMBDA p : ~RLess(p.life, p.age))

\* "Remove dead"
removeDead(ps) == SelectSeq(ps, LAMBDA p : ~isDead(p))

\* The bound on the particles of one emitter
MaxParticles == 5000

\* erase(begin, begin + k)
RECURSIVE eraseFront(_, _)
eraseFront(ps, k) ==
    IF k = 0 \/ ps = <<>> THEN ps
    ELSE IF Head(ps).n <= k THEN eraseFront(Tail(ps), k - Head(ps).n)
    ELSE <<[Head(ps) EXCEPT !.id = @ + k, !.n = @ - k]>> \o Tail(ps)

\* A cap that leaves one particle too many
keepBounded_OneMore(ps) ==
    IF Size(ps) > MaxParticles THEN eraseFront(ps, Size(ps) - MaxParticles - 1) ELSE ps

\* "Keep count bounded for safety"
keepBounded(ps) ==
    IF Size(ps) > MaxParticles THEN eraseFront(ps, Size(ps) - MaxParticles) ELSE ps

\* What setModel and the resize of updateEmitters put in runtimeEmitters2_
RuntimeEmitter2 == [spawnAccum |-> RInt(0), particles |-> <<>>]

\* The log of an emitter no tick has touched
NoEmitLog ==
    [pushed |-> 0, added |-> <<>>, before |-> RuntimeEmitter2, beforeCap |-> <<>>,
     vis |-> RInt(0), rate |-> RInt(0), lifespan |-> RInt(0)]

\* The body of the loop over the emitters, from the particles after spawning
emitterFinish(rt, spawned, log, vis, rate, lifespan, dt) ==
    [rt |-> [spawnAccum |-> spawned.spawnAccum,
             particles |-> keepBounded(removeDead(updateParticles(spawned.particles, dt)))],
     log |-> [pushed |-> log.pushed + (Size(spawned.particles) - Size(rt.particles)),
              added |-> Append(log.added, Size(spawned.particles) - Size(rt.particles)),
              before |-> rt,
              beforeCap |-> removeDead(updateParticles(spawned.particles, dt)),
              vis |-> vis, rate |-> rate, lifespan |-> lifespan]]

\* The body of the loop over the emitters, from the sampled values
emitterSampled(rt, e, log, vis, rate, lifespan, dt) ==
    emitterFinish(rt, spawnParticles(rt, e, vis, rate, lifespan, dt, log.pushed),
                  log, vis, rate, lifespan, dt)

\* The body of the loop over the emitters
emitterStep(rt, e, log, t, doc, force, dt) ==
    CHOOSE c \in {emitterSampled(rt, e, log, v, r, l, dt) :
                     v \in {emitVis(e, t, doc, force)},
                     r \in {emissionRate(e, t, doc)},
                     l \in {lifespanOf(e, t, doc)}} : TRUE

MaxTicks == 14
FreeTicks == 2

\* The frame times updateEmitters is called with: none, a millisecond, the
\* longest that tickAnimation passes, and a second
DtChoices == {<<0, 1>>, <<1, 1000>>, <<1, 10>>, <<1, 1>>}

\* updateEmitters up to the loop of buildNodeWorldCached, which it calls.  The
\* frame time is free in the first ticks and then stays what it was.
UpdateEmittersCall ==
    /\ viewPc = "idle"
    /\ Len(tickLog) < MaxTicks
    /\ model_.nodes # <<>>
    /\ \E dt \in DtChoices :
          /\ Len(tickLog) >= FreeTicks => dt = tickLog[Len(tickLog)]
          /\ dtSeconds' = dt
          /\ localTimeMs_' = localTimeMs_
                             + RTrunc(RMul(RMul(dt, RInt(1000)), playbackSpeed_))
    /\ lastGlobalTimeMs_' = sequenceTime(model_, currentSeq_, localTimeMs_')
    /\ EnterBuildNodeWorldCached(lastGlobalTimeMs_')
    /\ viewPc' = "updateEmitters"
    /\ UNCHANGED <<model_, seen, vbo_, skinnedVertices_, skinCount, playbackSpeed_,
                   currentSeq_, forceParticleVisible_, runtimeEmitters2_, tickLog,
                   emitLog, loadVars, sampleVars, hostVars>>

\* The indices a sequence is selected with
SeqChoices == {-1, 0, 1, 5}

\* The ticks after which a sequence may still be selected
SelectTicks == 1

\* setCurrentSequence(seqIndex)
SetCurrentSequence ==
    /\ viewPc = "idle"
    /\ Len(tickLog) <= SelectTicks
    /\ \E seqIndex \in SeqChoices :
          currentSeq_' = IF model_.sequences = <<>> THEN 0
                         ELSE Max(0, Min(seqIndex, Len(model_.sequences) - 1))
    /\ localTimeMs_' = 0
    /\ UNCHANGED <<viewPc, vbo_, skinnedVertices_, skinCount, playbackSpeed_,
                   lastGlobalTimeMs_, forceParticleVisible_, runtimeEmitters2_,
                   dtSeconds, tickLog, emitLog, evalVars, loadVars, sampleVars, hostVars>>

\* runtimeEmitters2_ once its size is that of emitters2
sizedRuntime(rts, doc) ==
    IF Len(rts) # Len(doc.emitters2)
    THEN [i \in 1..Len(doc.emitters2) |-> RuntimeEmitter2]
    ELSE rts

\* updateEmitters once buildNodeWorldCached has returned: the loop over the
\* emitters
EmitParticles ==
    /\ viewPc = "updateEmitters"
    /\ evalPc = "idle"
    /\ \E rts \in {sizedRuntime(runtimeEmitters2_, model_)} :
       \E res \in {[ei \in 1..Len(model_.emitters2) |->
                       emitterStep(rts[ei], model_.emitters2[ei], emitLog[ei],
                                   globalTimeMs, model_, forceParticleVisible_,
                                   dtSeconds)]} :
          /\ runtimeEmitters2_' = [ei \in 1..Len(model_.emitters2) |-> res[ei].rt]
          /\ emitLog' = [ei \in 1..Len(model_.emitters2) |-> res[ei].log]
    /\ tickLog' = Append(tickLog, dtSeconds)
    /\ viewPc' = "idle"
    /\ UNCHANGED <<vbo_, skinnedVertices_, skinCount, playbackSpeed_, localTimeMs_,
                   lastGlobalTimeMs_, currentSeq_, forceParticleVisible_, dtSeconds, evalVars,
                   loadVars, sampleVars, hostVars>>

----------------------------------------------------------------------------
(* Emitters to run                                                         *)

\* The node parsePRE2 stores for an emitter
EmitterNode(i, parentId) == [StillNode(i, parentId) EXCEPT !.type = "PRE2"]

FloatTrack(interp, keys) == [interp |-> interp, globalSeqId |-> -1, keys |-> keys]

FloatKey(time, value) == Key(time, value, RInt(0), RInt(0))

\* The fields of ParticleEmitter2 that spawning, ageing and removal read
ParticleEmitter2(objectId, rate, life, headOrTail, visibility, rates, lifespans) ==
    [objectId |-> objectId, emissionRate |-> rate, lifespan |-> life,
     headOrTail |-> headOrTail, trackVisibility |-> visibility,
     trackEmissionRate |-> rates, trackLifespan |-> lifespans]

\* 2.5 particles a second that live ten seconds, heads only
SteadyEmitter == ParticleEmitter2(0, <<5, 2>>, RInt(10), 0, NoTrack, NoTrack, NoTrack)

\* More a tick than the spawn loop admits, heads and tails, long lived
BurstEmitter == ParticleEmitter2(0, RInt(1000), RInt(100), 2, NoTrack, NoTrack, NoTrack)

\* Tails only; visible until time 2, its rate falls from 4 below 0 and its
\* lifespan from half a second to none
TrackedEmitter ==
    ParticleEmitter2(0, RInt(3), RInt(1), 1,
        FloatTrack(InterpNone, <<FloatKey(0, RInt(1)), FloatKey(2, RInt(0))>>),
        FloatTrack(InterpLinear, <<FloatKey(0, RInt(4)), FloatKey(2, RInt(-1))>>),
        FloatTrack(InterpNone, <<FloatKey(0, <<1, 2>>), FloatKey(1, <<3, 2>>),
                                 FloatKey(100, RInt(0))>>))

\* Heads only, at a high rate, with a lifespan of no time at all
BriefEmitter == ParticleEmitter2(0, RInt(1000), RInt(0), 0, NoTrack, NoTrack, NoTrack)

\* Neither heads nor tails
IdleEmitter == ParticleEmitter2(1, RInt(1), RInt(0), 3, NoTrack, NoTrack, NoTrack)

\* The emitters of a document and their nodes; the two nodes of the last name
\* each other as parent
EmitterSets ==
    {[emitters2 |-> <<SteadyEmitter>>, nodes |-> <<EmitterNode(1, -1)>>],
     [emitters2 |-> <<BurstEmitter>>, nodes |-> <<EmitterNode(1, -1)>>],
     [emitters2 |-> <<BriefEmitter>>, nodes |-> <<EmitterNode(1, -1)>>],
     [emitters2 |-> <<TrackedEmitter, IdleEmitter>>,
      nodes |-> <<EmitterNode(1, 1), EmitterNode(2, 0)>>]}

\* No sequence, and an empty sequence before one of three milliseconds
SequenceLists == {<<>>, <<Sequence(5, 5), Sequence(0, 3)>>}

\* Every emitter set without sequences, and the sets whose emitters sample
\* tracks with each list of sequences
EmitDocs ==
    UNION {{[nodes |-> es.nodes, globalSequencesMs |-> <<>>, sequences |-> sq,
             emitters2 |-> es.emitters2] :
               sq \in IF Len(es.emitters2) = 2 THEN SequenceLists ELSE {<<>>}} :
           es \in EmitterSets}

\* The milliseconds a tick advances the clock by at playback speed 1
DtMs == {RTrunc(RMul(dt, RInt(1000))) : dt \in DtChoices}

\* The values of the clock after n ticks of any frame time
RECURSIVE FreeTimes(_)
FreeTimes(n) == IF n = 0 THEN {0} ELSE {t + d : t \in FreeTimes(n - 1), d \in DtMs}

\* The values the clock can take
LocalTimes ==
    UNION {FreeTimes(n) : n \in 0..FreeTicks}
    \cup {t + k * d : t \in FreeTimes(FreeTicks), d \in DtMs, k \in 0..MaxTicks}

\* The times the ticks can evaluate a document at
EmitTimes(doc) ==
    {sequenceTime(doc, cur, t) : cur \in 0..Len(doc.sequences), t \in LocalTimes}

\* The view after setModel
InitEmit ==
    /\ model_ \in EmitDocs
    /\ globalTimeMs = 0
    /\ evalPc = "idle"
    /\ state = <<>>
    /\ stack = <<>>
    /\ loopI = 0
    /\ nodeWorld = <<>>
    /\ bodyCount = <<>>
    /\ evalCount = 0
    /\ seen = [t \in EmitTimes(model_) |-> [set |-> FALSE, mats |-> <<>>]]
    /\ viewPc = "idle"
    /\ vbo_ = 0
    /\ skinnedVertices_ = <<>>
    /\ skinCount = 0
    /\ playbackSpeed_ = RInt(1)
    /\ localTimeMs_ = 0
    /\ lastGlobalTimeMs_ = 0
    /\ currentSeq_ = 0
    /\ forceParticleVisible_ \in BOOLEAN
    /\ runtimeEmitters2_ = [i \in 1..Len(model_.emitters2) |-> RuntimeEmitter2]
    /\ dtSeconds = RInt(0)
    /\ tickLog = <<>>
    /\ emitLog = [i \in 1..Len(model_.emitters2) |-> NoEmitLog]
    /\ HostIdle
    /\ LoadIdle
    /\ seqLens = <<>>
    /\ SampleIdle

NextEmit ==
    \/ SetCurrentSequence
    \/ UpdateEmittersCall
    \/ LoopCall
    \/ EnterDone
    \/ EnterInProgress
    \/ EnterNew
    \/ NodeBody
    \/ EvalReturn
    \/ EmitParticles

SpecEmit == InitEmit /\ [][NextEmit]_vars

----------------------------------------------------------------------------
(* The emitters' contracts                                                 *)

\* No tick is under way
Ticked == viewPc = "idle" /\ tickLog # <<>>

\* Every tick so far had the frame time dt
AllTicks(dt) == \A k \in 1..Len(tickLog) : tickLog[k] = dt

\* Emitter ei emits rate particles a second at every time, one for each spawn,
\* and is visible
EmitsAt(ei, rate) ==
    /\ model_.emitters2[ei].trackEmissionRate.keys = <<>>
    /\ model_.emitters2[ei].emissionRate = rate
    /\ model_.emitters2[ei].trackVisibility.keys = <<>>
    /\ model_.emitters2[ei].headOrTail \in {0, 1}

\* C12: an emitter of 2.5 particles a second, ticked with dt = 1.0 from an
\* empty accumulator, spawns 2, 3, 2, 3 particles in its first four ticks: 10
\* after four ticks.
C12_AccumulatorAlternates ==
    \A ei \in 1..Len(emitLog) :
        (Ticked /\ AllTicks(RInt(1)) /\ EmitsAt(ei, <<5, 2>>)) =>
            /\ \A k \in 1..Min(4, Len(emitLog[ei].added)) :
                  emitLog[ei].added[k] = <<2, 3, 2, 3>>[k]
            /\ Len(tickLog) = 4 => emitLog[ei].pushed = 10

\* The particles of a vector one by one, in its order
RECURSIVE Particles(_)
Particles(ps) ==
    IF ps = <<>> THEN <<>>
    ELSE [i \in 1..Head(ps).n |->
             [id |-> Head(ps).id + i - 1, age |-> Head(ps).age, life |-> Head(ps).life]]
         \o Particles(Tail(ps))

\* The last n elements of a sequence
Newest(s, n) == SubSeq(s, Len(s) - n + 1, Len(s))

\* C13: after every tick an emitter holds at most 5000 particles; when a tick
\* leaves more, exactly the excess is removed, the removed particles are the
\* ones inserted first, and the others keep their order.
C13_PoolBounded ==
    Ticked =>
        \A ei \in 1..Len(runtimeEmitters2_) :
            /\ Size(runtimeEmitters2_[ei].particles) <= MaxParticles
            /\ Size(emitLog[ei].beforeCap) > MaxParticles =>
                  Particles(runtimeEmitters2_[ei].particles)
                      = Newest(Particles(emitLog[ei].beforeCap), MaxParticles)
            /\ Size(emitLog[ei].beforeCap) <= MaxParticles =>
                  runtimeEmitters2_[ei].particles = emitLog[ei].beforeCap

\* A tick has left more than 5000 particles and the cap has cut them
C13_CapApplied ==
    /\ Ticked
    /\ \E ei \in 1..Len(runtimeEmitters2_) :
          /\ Size(emitLog[ei].beforeCap) > MaxParticles
          /\ Size(runtimeEmitters2_[ei].particles) = MaxParticles

\* The lifespan track of emitter ei sampled at the time of the tick under way
SampledLifespan(ei) ==
    sampleTrackFloat(model_.emitters2[ei].trackLifespan, globalTimeMs,
                     model_.emitters2[ei].lifespan, model_.globalSequencesMs)

\* Run p holds particles of run q, dt older and with the life they had
AgedFrom(p, q, dt) ==
    /\ q.id <= p.id
    /\ p.id + p.n <= q.id + q.n
    /\ p.age = RAdd(q.age, dt)
    /\ p.life = q.life

\* Run p holds particles the tick under way has made, with the given life:
\* none of them has been in the pool before
SpawnedNow(p, ei, life) ==
    /\ p.id >= emitLog[ei].pushed
    /\ p.age = RAdd(RInt(0), dtSeconds)
    /\ p.life = life

\* What a tick leaves in the pool of emitter ei, when a new particle lives as
\* long as life says: old particles that have aged by dt and new ones of
\* age dt, all of them younger than their life, in the order of their serial
\* numbers; unless the cap has cut the pool, every old particle that is still
\* younger than its life is among them
LifeCycleStep(ei, life) ==
    LET old == runtimeEmitters2_[ei].particles
        new == runtimeEmitters2_'[ei].particles
    IN  /\ \A k \in 1..Len(new) :
              /\ RLess(new[k].age, new[k].life)
              /\ \/ \E j \in 1..Len(old) : AgedFrom(new[k], old[j], dtSeconds)
                 \/ SpawnedNow(new[k], ei, life)
        /\ \A k \in 1..(Len(new) - 1) : new[k].id + new[k].n <= new[k + 1].id
        /\ Size(emitLog'[ei].beforeCap) <= MaxParticles =>
              \A j \in 1..Len(old) :
                  RLess(RAdd(old[j].age, dtSeconds), old[j].life) =>
                      \E k \in 1..Len(new) :
                          new[k].id = old[j].id /\ new[k].n = old[j].n

\* C14 as stated: after every tick every particle in a pool has age < life; a
\* particle is created with age 0 and the lifespan sampled at spawn time, ages
\* by dt in every tick from the one that spawns it, is gone after the first
\* tick that ends with age >= life, and never comes back.
C14_ParticleLifeCycle ==
    [][EmitParticles =>
          \A ei \in 1..Len(runtimeEmitters2_) :
              LifeCycleStep(ei, SampledLifespan(ei))]_vars

\* C14 as the code has it: the same, with the life of a new particle the
\* sampled lifespan or 0.01 seconds, whichever is longer.
C14_ParticleLifeCycleFloored ==
    [][EmitParticles =>
          \A ei \in 1..Len(runtimeEmitters2_) :
              LifeCycleStep(ei, RMax(<<1, 100>>, SampledLifespan(ei)))]_vars

\* A pool holds new particles next to aged ones, and has lost particles whose
\* age had reached their life
C14_SpawnedAgedRemoved ==
    /\ Ticked
    /\ \E ei \in 1..Len(runtimeEmitters2_) :
          /\ Len(runtimeEmitters2_[ei].particles) >= 2
          /\ \E k \in 1..Len(runtimeEmitters2_[ei].particles) :
                runtimeEmitters2_[ei].particles[k].age = tickLog[Len(tickLog)]
          /\ Size(runtimeEmitters2_[ei].particles) < emitLog[ei].pushed
          /\ Size(emitLog[ei].beforeCap) <= MaxParticles

----------------------------------------------------------------------------
(* Suppressed inheritance                                                  *)

\* The scale track of node c (1-based) sampled at the time of the evaluation
LocalScale(c) ==
    sampleTrackVec3(model_.nodes[c].trackScaling, globalTimeMs, V3(1, 1, 1),
                    model_.globalSequencesMs)

\* The square of the length of column j of a matrix: of the scale along axis j
ColumnScaleSq(a, j) ==
    RSum3(RMul(a.m[1][j], a.m[1][j]), RMul(a.m[2][j], a.m[2][j]),
          RMul(a.m[3][j], a.m[3][j]))

\* Node c (1-based) does not inherit scaling, its parent's world scale is
\* (2, 2, 2) and its own scale is (1, 1, 1)
UnscaledChild(c) ==
    /\ HasFlag(model_.nodes[c].flags, NODE_DONT_INHERIT_SCALING)
    /\ hasParent(model_.nodes[c], c - 1, nodeCount)
    /\ nodeWorld[model_.nodes[c].parentId + 1].Scale = V3(2, 2, 2)
    /\ LocalScale(c) = V3(1, 1, 1)

\* C15: a child node flagged DontInheritScaling whose parent has world scale
\* (2, 2, 2) and whose own sampled scale is (1, 1, 1) has world scale
\* (1, 1, 1), and the scale part of its world matrix is the unit scale.
C15_ScalingNotInherited ==
    Returned =>
        \A c \in 1..nodeCount :
            UnscaledChild(c) =>
                /\ nodeWorld[c].Scale = V3(1, 1, 1)
                /\ \A j \in 1..3 : ColumnScaleSq(nodeWorld[c].Mat, j) = RInt(1)

\* An evaluation has returned the world of such a child under a root
C15_ChildOfScaledRoot ==
    /\ Returned
    /\ \E c \in 1..nodeCount :
          /\ UnscaledChild(c)
          /\ model_.nodes[model_.nodes[c].parentId + 1].parentId = -1
          /\ nodeWorld[c].Scale = V3(1, 1, 1)

----------------------------------------------------------------------------
(* The loader's contracts on geometry and materials                        *)

\* The files of at most MaxChunks chunks drawn from a pool
FilesOf(pool) ==
    {TagMDLX \o Flatten(cs) : cs \in UNION {[1..n -> pool] : n \in 0..MaxChunks}}

\* The file that holds one geoset and nothing else
GeosetFile(g) == TagMDLX \o Chunk(TagGEOS, GeosetBytes(g))

\* The size a chunk declares
DeclaredSize(c) == c[5] + 256 * c[6] + 65536 * c[7] + 16777216 * c[8]

\* The chunks that are no geometry, leave the format version alone and are
\* as long as they declare
PlainChunks ==
    {c \in OtherChunks : /\ SubSeq(c, 1, 4) \notin {TagVERS, TagGEOS}
                         /\ DeclaredSize(c) = Len(c) - 8}

\* The files whose only geoset is the minimal triangle, alone or next to
\* chunks of other kinds
MinimalTriangleFiles ==
    {TagMDLX \o Flatten(cs) :
        cs \in {x \in UNION {[1..n -> PlainChunks
                                      \cup {Chunk(TagGEOS, GeosetBytes(MinimalTriangle))}] :
                                n \in 1..MaxChunks} :
                   Cardinality({i \in DOMAIN x : x[i] \notin PlainChunks}) = 1}}

\* C16: parsing a document with one geoset of the 3 vertices (0,0,0), (1,0,0),
\* (0,1,0), one triangle-list group of one triangle (an index count of 3) and
\* the index pool [0,1,2] succeeds and yields 3 vertices, the indices [0,1,2]
\* and exactly one submesh, of indexOffset 0 and indexCount 3.
C16_MinimalTriangle ==
    bytes \in MinimalTriangleFiles =>
        /\ bytes = GeosetFile(MinimalTriangle) => pc \notin {"failed", "aborted"}
        /\ pc = "done" =>
              /\ model.vertices = <<<<0, 0, 0>>, <<F32One, 0, 0>>, <<0, F32One, 0>>>>
              /\ model.indices = <<0, 1, 2>>
              /\ Len(model.subMeshes) = 1
              /\ model.subMeshes[1].indexOffset = 0
              /\ model.subMeshes[1].indexCount = 3

\* The file of the minimal triangle alone has been parsed
C16_MinimalTriangleParsed ==
    /\ pc = "done"
    /\ bytes = GeosetFile(MinimalTriangle)
    /\ Len(model.vertices) = 3
    /\ Len(model.subMeshes) = 1

\* The files without a materials chunk
FilesWithoutMTLS == FilesOf({c \in ChunkPool : SubSeq(c, 1, 4) # TagMTLS})

\* C17: every successfully parsed document has a material, and every
\* submesh's materialId is below the number of materials; an input without a
\* materials chunk yields exactly one material, the default one with alpha 1
\* and texture id 0.
C17_MaterialsBackfilled ==
    pc = "done" =>
        /\ model.materials # <<>>
        /\ \A i \in 1..Len(model.subMeshes) :
              model.subMeshes[i].materialId < Len(model.materials)
        /\ bytes \in FilesWithoutMTLS =>
              /\ Len(model.materials) = 1
              /\ model.materials[1].layer.alpha = F32One
              /\ model.materials[1].layer.textureId = 0

\* A file without a materials chunk has been parsed whose geoset names
\* material 5: the default material is there and the submesh uses it
C17_DefaultMaterialUsed ==
    /\ pc = "done"
    /\ bytes \in FilesWithoutMTLS
    /\ \E g \in PrimitiveGeosets : g.materialId = 5 /\ bytes = GeosetFile(g)
    /\ Len(model.materials) = 1
    /\ Len(model.subMeshes) = 1
    /\ model.subMeshes[1].materialId = 0

\* The supported primitive kinds
SupportedKinds == {4, 5, 6, 7}

\* The groups of a geoset that are expanded
Groups(g) == 1..Min(Len(g.ptyp), Len(g.pcnt))

HasUnsupported(g) == \E i \in Groups(g) : g.ptyp[i] \notin SupportedKinds

\* The first group of an unsupported kind
FirstUnsupported(g) ==
    CHOOSE i \in Groups(g) :
        /\ g.ptyp[i] \notin SupportedKinds
        /\ \A j \in 1..(i - 1) : g.ptyp[j] \in SupportedKinds

\* The triangles of the groups before the first unsupported one
TrianglesBefore(g) ==
    ConvertPrimitives(0, FirstUnsupported(g) - 1, g.ptyp, g.pcnt, g.pvtx, 0)

\* C20: when the primitive types of a geoset hold an unsupported kind (none
\* of 4, 5, 6, 7) at group g, the expansion stops there: the triangles of the
\* geoset are those of the groups before g, and no triangle comes from group
\* g or from a later group.
C20_UnsupportedKindStopsExpansion ==
    \A g \in PrimitiveGeosets :
        (HasUnsupported(g) /\ bytes = GeosetFile(g) /\ pc = "done") =>
            model.indices = TrianglesBefore(g)

\* C21: a geoset without a normals block (the vertex positions are followed
\* by the primitive types) is parsed without error: the parse succeeds and
\* the vertices and triangles of the geoset are loaded.
C21_AbsentNormalsParsed ==
    bytes = GeosetFile(WithoutNormals) =>
        /\ pc \notin {"failed", "aborted"}
        /\ ~outError.set
        /\ pc = "done" =>
              /\ model.vertices = WithoutNormals.vrtx
              /\ model.indices = WithoutNormals.pvtx

----------------------------------------------------------------------------
(* The spawn gate and the accumulator                                      *)

\* What the last tick added to the pool of emitter ei
LastAdded(ei) == emitLog[ei].added[Len(emitLog[ei].added)]

\* C22: in one tick the particles added to the pool of one emitter are never
\* more than 200, whatever the emission rate, the frame time and the
\* head/tail selection of the emitter are.
C22_SpawnsCappedPerTick ==
    Ticked => \A ei \in 1..Len(emitLog) : LastAdded(ei) <= 200

\* The emission rate track of emitter ei sampled at the time of the last tick
SampledRate(ei) ==
    sampleTrackFloat(model_.emitters2[ei].trackEmissionRate, globalTimeMs,
                     model_.emitters2[ei].emissionRate, model_.globalSequencesMs)

\* The visibility track of emitter ei sampled at the time of the last tick
SampledVisibility(ei) ==
    sampleTrackFloat(model_.emitters2[ei].trackVisibility, globalTimeMs, RInt(1),
                     model_.globalSequencesMs)

\* Emitter ei was dormant in the last tick; an emitter whose particles are
\* forced to show counts as visible
Dormant(ei) ==
    \/ ~forceParticleVisible_ /\ ~RLess(<<1, 1000>>, SampledVisibility(ei))
    \/ ~RLess(RInt(0), SampledRate(ei))

\* The fractional part of a number that is not negative
Frac(a) == RSub(a, RInt(RTrunc(a)))

\* C23: after every tick the spawn accumulator of an emitter is in [0, 1); a
\* tick in which the emitter is dormant (visibility <= 0.001 or emission rate
\* <= 0) spawns nothing and leaves the accumulator as it was, and a tick in
\* which it is active leaves the fractional part of (accumulator before +
\* rate * dt).
C23_AccumulatorFraction ==
    Ticked =>
        \A ei \in 1..Len(emitLog) :
            /\ ~RLess(runtimeEmitters2_[ei].spawnAccum, RInt(0))
            /\ RLess(runtimeEmitters2_[ei].spawnAccum, RInt(1))
            /\ Dormant(ei) =>
                  /\ LastAdded(ei) = 0
                  /\ runtimeEmitters2_[ei].spawnAccum = emitLog[ei].before.spawnAccum
            /\ ~Dormant(ei) =>
                  runtimeEmitters2_[ei].spawnAccum
                      = Frac(RAdd(emitLog[ei].before.spawnAccum,
                                  RMul(SampledRate(ei), tickLog[Len(tickLog)])))

----------------------------------------------------------------------------
(* The playback clock                                                      *)

\* The sequence that is selected
SelectedSequence == model_.sequences[currentSeq_ + 1]

\* A tick has handed its query time to the evaluator
TimeHanded == viewPc = "updateEmitters"

\* C24: when the document has a sequence, the query time a tick hands to the
\* evaluators lies in [start, max(end, start + 1)) of the selected sequence,
\* whatever the clock has run up to and also when end <= start; the selected
\* index is always one of 0 .. number of sequences - 1.
C24_QueryTimeInSequence ==
    model_.sequences # <<>> =>
        /\ currentSeq_ \in 0..(Len(model_.sequences) - 1)
        /\ TimeHanded =>
              /\ globalTimeMs = lastGlobalTimeMs_
              /\ SelectedSequence.startMs <= globalTimeMs
              /\ globalTimeMs < Max(SelectedSequence.endMs, SelectedSequence.startMs + 1)

\* The clock has run beyond the end of the selected sequence, which is not
\* the first, and the tick has handed a time inside it
C24_ClockWrapped ==
    /\ TimeHanded
    /\ currentSeq_ = 1
    /\ localTimeMs_ > SelectedSequence.endMs
    /\ globalTimeMs < SelectedSequence.endMs

----------------------------------------------------------------------------
(* Drawing particles: the sprite cell of a particle                        *)

\* totalFrames of drawParticles; rows and columns stay far below the width
\* of std::uint32_t here, so the product does not wrap
totalFrames(e) == Max(1, e.rows * e.columns)

\* getCell: interval is (start, end, repeat); floor of a float that is not
\* negative is its truncation, and fmod of two whole floats is %
getCell(interval, factor, total) ==
    IF interval[2] - interval[1] > 0
    THEN Min(interval[1] + (RTrunc(RMul(RInt((interval[2] - interval[1]) * interval[3]), factor))
                              % (interval[2] - interval[1])),
             total - 1)
    ELSE interval[1]

\* tLife of the particle loop
tLife(p) == clampf(RDiv(p.age, RMax(Rat(1, 1000), p.life)), RInt(0), RInt(1))

\* pickFrame: the half of the life the particle is in
intervalIndex(e, t) == IF RLess(t, e.timeMiddle) THEN 0 ELSE 1

\* pickFrame: the progress within that half, before std::min(factor, 1.0f)
halfFactor(e, t) ==
    IF RLess(t, e.timeMiddle)
    THEN RDiv(t, RMax(Rat(1, 10000), e.timeMiddle))
    ELSE RDiv(RSub(t, e.timeMiddle), RMax(Rat(1, 10000), RSub(RInt(1), e.timeMiddle)))

\* pickFrame: the interval it reads
pickInterval(e, t, tailType) ==
    IF tailType THEN e.tailIntervals[intervalIndex(e, t) + 1]
    ELSE e.headIntervals[intervalIndex(e, t) + 1]

pickFrame(e, p, tailType) ==
    IF e.replaceableId = 1 \/ e.replaceableId = 2 THEN 0
    ELSE getCell(pickInterval(e, tLife(p), tailType),
                 IF RLess(RInt(1), halfFactor(e, tLife(p))) THEN RInt(1)
                 ELSE halfFactor(e, tLife(p)),
                 totalFrames(e))

\* The frames setupUv gets for one particle: the tail quad first, then the
\* head quad
framesOf(e, p) ==
    (IF p.tailType = 1 /\ RLess(Rat(1, 10000), e.tailLength)
     THEN <<[tail |-> TRUE, frame |-> pickFrame(e, p, TRUE)]>> ELSE <<>>)
    \o (IF p.tailType = 0
        THEN <<[tail |-> FALSE, frame |-> pickFrame(e, p, FALSE)]>> ELSE <<>>)

\* (start, end, repeat) of the first and of the second half of a life
IntervalPairs ==
    { <<<<0, 2, 1>>, <<2, 4, 1>>>>,
      <<<<0, 4, 2>>, <<1, 1, 1>>>>,
      <<<<3, 1, 1>>, <<0, 0, 0>>>>,
      <<<<0, 0, 1>>, <<0, 8, 3>>>> }

DrawEmitters ==
    [rows : {0, 1, 2}, columns : {1, 2}, timeMiddle : {RInt(0), Rat(1, 2), RInt(1)},
     replaceableId : {0, 1}, tailLength : {RInt(0), RInt(1)},
     headIntervals : IntervalPairs, tailIntervals : IntervalPairs]

DrawnParticles ==
    [age : {RInt(0), Rat(1, 4), Rat(1, 2), Rat(3, 4), RInt(1), RInt(2)},
     life : {RInt(0), RInt(1)}, tailType : {0, 1}]

\* One pass of the particle loop of drawParticles
DrawParticle ==
    /\ drawEmitter # <<>>
    /\ \E p \in DrawnParticles :
          /\ drawParticle' = p
          /\ drawn' = framesOf(drawEmitter, p)
    /\ UNCHANGED <<drawEmitter, loadVars, sampleVars, evalVars, skinVars, emitVars,
                   windowVars, readerVars>>

InitDraw ==
    /\ drawEmitter \in DrawEmitters
    /\ drawParticle = <<>>
    /\ drawn = <<>>
    /\ LoadIdle
    /\ seqLens = <<>>
    /\ SampleIdle
    /\ EvalIdle
    /\ viewPc = "idle"
    /\ vbo_ = 0
    /\ skinnedVertices_ = <<>>
    /\ skinCount = 0
    /\ EmitIdle
    /\ WindowIdle
    /\ ReaderIdle

NextDraw == DrawParticle

SpecDraw == InitDraw /\ [][NextDraw]_vars

\* C25: every frame index picked for a particle lies in
\* 0 .. totalFrames - 1 with totalFrames = max(1, rows * columns), for every
\* emitter descriptor, also one whose intervals have end <= start, and every
\* age of the particle.
C25_FrameInSheet ==
    \A i \in 1..Len(drawn) :
        /\ 0 <= drawn[i].frame
        /\ drawn[i].frame <= Max(1, drawEmitter.rows * drawEmitter.columns) - 1

----------------------------------------------------------------------------
(* The skin data of a document of several geosets                          *)

\* C26: a document that was parsed and has skin data has one group id per
\* vertex, whatever mix of geosets it was built from: geosets with no, with
\* fewer and with more group ids than vertices.
C26_GroupPerVertex ==
    (pc = "done" /\ model.vertexGroups # <<>>) =>
        Len(model.vertexGroups) = Len(model.vertices)

----------------------------------------------------------------------------
(* Nodes without a usable parent                                           *)

\* The parentId of node idx is its own index, negative or beyond the array
RootLike(idx) ==
    \/ model_.nodes[idx + 1].parentId = idx
    \/ model_.nodes[idx + 1].parentId < 0
    \/ model_.nodes[idx + 1].parentId >= nodeCount

\* localM of a node over the identity parent, from what it sampled
ownLocalM(n, oldWorldLoc, t, s, localRot) ==
    localM(computedLoc(n, IdentityWorld, oldWorldLoc, t), n.pivot,
           computedRot(n, IdentityWorld, localRot),
           computedScale(n, IdentityWorld, s))

\* The local transform buildNode computes for node n at a time when every
\* parent value is the identity; oldWorldLoc is nodeWorldLoc_ of the node
ownLocal(n, oldWorldLoc, time) ==
    ownLocalM(n, oldWorldLoc,
              sampleTrackVec3(n.trackTranslation, time, V3(0, 0, 0), model_.globalSequencesMs),
              sampleTrackVec3(n.trackScaling, time, V3(1, 1, 1), model_.globalSequencesMs),
              localRotOf(sampleTrackQuat(n.trackRotation, time, V4(0, 0, 0, 1),
                                         model_.globalSequencesMs)))

\* The body of a node without a usable parent stores its local transform
RootBodyStoresLocal ==
    (evalPc = "loop" /\ stack # <<>> /\ TopFrame.at = "body" /\ RootLike(TopFrame.idx)) =>
        nodeWorld'[TopFrame.idx + 1].Mat =
            ownLocal(TopNode, nodeWorld[TopFrame.idx + 1].Loc, globalTimeMs)

\* C27: a node whose parentId is its own index, negative or >= the node
\* count is evaluated as a root: the world transform its body stores is its
\* own local transform over the identity parent, no call of buildNode is
\* made from its body (it is never a caller on the stack), and it is never
\* entered while in progress.
C27_InvalidParentIsRoot ==
    /\ [](\A k \in 2..Len(stack) : ~RootLike(stack[k].idx))
    /\ [](\A k \in 1..Len(stack) :
              (stack[k].at = "entry" /\ RootLike(stack[k].idx)) => state[stack[k].idx + 1] # 1)
    /\ [][RootBodyStoresLocal]_vars

\* An evaluation has returned for three nodes: the first is its own parent,
\* the second has a negative parentId, the third one beyond the array; each
\* body ran once and the first node is not left at the identity
C27_ThreeRootsEvaluated ==
    /\ Returned
    /\ nodeCount = 3
    /\ [i \in 1..3 |-> model_.nodes[i].parentId] = <<0, -1, 3>>
    /\ \A i \in 1..3 : state[i] = 2 /\ bodyCount[i] = 1
    /\ nodeWorld[1].Mat # Identity4x4
    /\ nodeWorld[1].Mat = ownLocal(model_.nodes[1], V3(0, 0, 0), globalTimeMs)

----------------------------------------------------------------------------
(* The main window: selecting a model and loading it in the background.    *)
(* The watcher reports only the future it was last given; a future it was  *)
(* given before runs on and its result is dropped.                         *)

Files == {"a.mdx", "b.mdx", "broken.mdx"}

\* The files MdxLoader::LoadFromFile returns a model for
Loadable == {"a.mdx", "b.mdx"}

MaxSelections == 4

\* MainWindow::loadSelectedModel
loadSelectedModel(filePath) ==
    /\ selections' = Append(selections, filePath)
    /\ IF filePath \in modelCache_
       THEN /\ shown' = [path |-> filePath, loaded |-> TRUE]
            /\ UNCHANGED <<loadToken_, modelWatcher_, discarded>>
       ELSE /\ loadToken_' = loadToken_ + 1
            /\ modelWatcher_' = [path |-> filePath, token |-> loadToken_ + 1,
                                 status |-> "running"]
            /\ discarded' = IF modelWatcher_.status = "running"
                            THEN discarded + 1 ELSE discarded
            /\ UNCHANGED shown
    /\ UNCHANGED modelCache_

\* MainWindow::onSelectionChanged for a valid row
OnSelectionChanged ==
    /\ Len(selections) < MaxSelections
    /\ \E filePath \in Files : loadSelectedModel(filePath)
    /\ UNCHANGED <<loadVars, sampleVars, evalVars, skinVars, emitVars, drawVars, readerVars>>

\* LoadModelFile returns on its thread for the future that is watched
LoadModelFile ==
    /\ modelWatcher_.status = "running"
    /\ modelWatcher_' = [modelWatcher_ EXCEPT !.status = "finished"]
    /\ UNCHANGED <<modelCache_, loadToken_, shown, discarded, selections>>
    /\ UNCHANGED <<loadVars, sampleVars, evalVars, skinVars, emitVars, drawVars, readerVars>>

\* LoadModelFile returns for a future that is no longer watched
LoadModelFileDropped ==
    /\ discarded > 0
    /\ discarded' = discarded - 1
    /\ UNCHANGED <<modelCache_, loadToken_, modelWatcher_, shown, selections>>
    /\ UNCHANGED <<loadVars, sampleVars, evalVars, skinVars, emitVars, drawVars, readerVars>>

\* MainWindow::onModelLoadFinished with result = modelWatcher_.result()
OnModelLoadFinished ==
    /\ modelWatcher_.status = "finished"
    /\ modelWatcher_' = [modelWatcher_ EXCEPT !.status = "delivered"]
    /\ IF modelWatcher_.token # loadToken_
       THEN UNCHANGED <<modelCache_, shown>>
       ELSE IF modelWatcher_.path \notin Loadable
       THEN /\ shown' = [path |-> modelWatcher_.path, loaded |-> FALSE]
            /\ UNCHANGED modelCache_
       ELSE /\ modelCache_' = modelCache_ \cup {modelWatcher_.path}
            /\ shown' = [path |-> modelWatcher_.path, loaded |-> TRUE]
    /\ UNCHANGED <<loadToken_, discarded, selections>>
    /\ UNCHANGED <<loadVars, sampleVars, evalVars, skinVars, emitVars, drawVars, readerVars>>

InitWindow ==
    /\ WindowIdle
    /\ DrawIdle
    /\ ReaderIdle
    /\ LoadIdle
    /\ seqLens = <<>>
    /\ SampleIdle
    /\ EvalIdle
    /\ viewPc = "idle"
    /\ vbo_ = 0
    /\ skinnedVertices_ = <<>>
    /\ skinCount = 0
    /\ EmitIdle

NextWindow ==
    \/ OnSelectionChanged
    \/ LoadModelFile
    \/ LoadModelFileDropped
    \/ OnModelLoadFinished

SpecWindow == InitWindow /\ [][NextWindow]_vars

\* No background load is running and no completion waits to be handled
NoLoadInFlight ==
    /\ modelWatcher_.status \in {"none", "delivered"}
    /\ discarded = 0

\* C28: whatever the interleaving of selections (served from the cache or
\* started as background loads) and completions, once no load is in flight
\* the viewer shows the file selected last: the completion of an earlier
\* selection has not replaced it.
C28_LatestSelectionShown ==
    (NoLoadInFlight /\ selections # <<>>) =>
        shown.path = selections[Len(selections)]

----------------------------------------------------------------------------
(* The ranges the Readers of the loader read in.  What the bytes of a file *)
(* hold is left open here: a size field read from them takes any of the   *)
(* values of FieldChoices.  A std::uint32 field v is written as qint32(v): *)
(* v itself below 2^31, and v - 2^32 from 2^31 on.                         *)

\* Stands for qsizetype(v) of a field v >= 2^31 where qsizetype has 64 bits:
\* the value, v itself, is compared only with offsets in a buffer
TooBig == 1073741824

\* "qsizetype(v)" for a std::uint32 v: qsizetype has the width of size_t
qsizetype(v) == IF v >= 0 \/ sizeBits = 32 THEN v ELSE TooBig

\* "v < c" for a std::uint32 v and a small constant c
U32Below(v, c) == v >= 0 /\ v < c

FieldChoices == {0, 4, 8, 12, 16, 24, -16, -1}
BufSizes == {8, 20, 36}
MaxOps == 6

ChunkKinds == {"VERS", "GEOS", "MTLS", "PRE2"}

KindReader(kind, base, size, pos) == [kind |-> kind, base |-> base, size |-> size, pos |-> pos]

\* The Reader that is reading, and the one it was made from
TopReader == readers[1]
OuterOf == readers[2]

\* The ranges of the Readers in use
ReaderRanges ==
    [k \in 1..Len(readers) |->
        [lo |-> readers[k].base, hi |-> readers[k].base + readers[k].size]]

\* Reader r copies n bytes from data + pos
ReadAt(r, n) ==
    [set |-> TRUE, lo |-> r.base + r.pos, hi |-> r.base + r.pos + n, within |-> ReaderRanges]

\* One more operation of a load that is running
ReaderStep ==
    /\ readerPc = "run"
    /\ opCount < MaxOps
    /\ opCount' = opCount + 1
    /\ UNCHANGED <<sizeBits, loadVars, sampleVars, evalVars, skinVars, emitVars,
                   drawVars, windowVars>>

\* LoadFromBytes: one pass of "while (r.canRead(8))" up to the sub-reader cr
OpenChunk ==
    /\ ReaderStep
    /\ TopReader.kind = "file"
    /\ IF ~canRead(TopReader, 8)
       THEN readerPc' = "done" /\ UNCHANGED <<readers, lastRead>>
       ELSE \E tag \in ChunkKinds, chunkSize \in FieldChoices :
              /\ lastRead' = ReadAt(TopReader, 8)
              /\ IF ~canRead(Advance(TopReader, 8), qsizetype(chunkSize))
                 THEN /\ readerPc' = "done"
                      /\ readers' = <<Advance(TopReader, 8)>>
                 ELSE /\ readers' = <<KindReader(tag, TopReader.base + TopReader.pos + 8,
                                                 qsizetype(chunkSize), 0),
                                      Advance(TopReader, 8)>>
                      /\ UNCHANGED readerPc

\* LoadFromBytes: "advance outer reader", r.pos = chunkStart + qsizetype(chunkSize)
CloseChunk ==
    /\ ReaderStep
    /\ TopReader.kind \in ChunkKinds \cup {"ended"}
    /\ readers' = <<[OuterOf EXCEPT !.pos = (TopReader.base - OuterOf.base) + TopReader.size]>>
    /\ UNCHANGED <<readerPc, lastRead>>

\* The GEOS branch: "while (cr.canRead(4))", the inclusiveSize, and
\* parseGeoset up to "Advance parent reader over this geoset"
OpenGeoset ==
    /\ ReaderStep
    /\ TopReader.kind = "GEOS"
    /\ canRead(TopReader, 4)
    /\ lastRead' = ReadAt(TopReader, 4)
    /\ \E inclusiveSize \in FieldChoices :
          IF U32Below(inclusiveSize, 4)
          THEN /\ readers' = <<[Advance(TopReader, 4) EXCEPT !.kind = "ended"]>> \o Tail(readers)
               /\ UNCHANGED readerPc
          ELSE IF \/ qsizetype(inclusiveSize) - 4 < 0
                  \/ ~canRead(Advance(TopReader, 4), qsizetype(inclusiveSize) - 4)
          THEN /\ readerPc' = "failed"
               /\ readers' = <<Advance(TopReader, 4)>> \o Tail(readers)
          ELSE /\ readers' = <<KindReader("geoset", TopReader.base + TopReader.pos + 4,
                                          qsizetype(inclusiveSize) - 4, 0),
                               Advance(TopReader, qsizetype(inclusiveSize))>>
                              \o Tail(readers)
               /\ UNCHANGED readerPc

\* parseMaterials: one pass of "while (r.pos + 4 <= end)" up to the sub-reader
\* mr and "advance outer reader"; end is r.pos + qsizetype(chunkSize) with
\* r.pos = 0, the size of r
OpenMaterial ==
    /\ ReaderStep
    /\ TopReader.kind = "MTLS"
    /\ TopReader.pos + 4 <= TopReader.size
    /\ lastRead' = ReadAt(TopReader, 4)
    /\ \E inclusiveSize \in FieldChoices :
          IF \/ U32Below(inclusiveSize, 12)
             \/ TopReader.pos + qsizetype(inclusiveSize) > TopReader.size
          THEN /\ readerPc' = "failed"
               /\ readers' = <<Advance(TopReader, 4)>> \o Tail(readers)
          ELSE /\ readers' = <<KindReader("material", TopReader.base + TopReader.pos + 4,
                                          qsizetype(inclusiveSize) - 4, 0),
                               Advance(TopReader, qsizetype(inclusiveSize))>>
                              \o Tail(readers)
               /\ UNCHANGED readerPc

\* parsePRE2: one pass of "while (r.pos + 4 <= endPos)" up to the sub-reader
\* orr; endPos is the size of r
OpenObject ==
    /\ ReaderStep
    /\ TopReader.kind = "PRE2"
    /\ TopReader.pos + 4 <= TopReader.size
    /\ lastRead' = ReadAt(TopReader, 4)
    /\ UNCHANGED readerPc
    /\ \E objectSize \in FieldChoices :
          IF \/ U32Below(objectSize, 8)
             \/ TopReader.pos + qsizetype(objectSize) > TopReader.size
          THEN readers' = <<[Advance(TopReader, 4) EXCEPT !.kind = "ended"]>> \o Tail(readers)
          ELSE readers' = <<KindReader("object", TopReader.base + TopReader.pos,
                                       qsizetype(objectSize), 4),
                            Advance(TopReader, 4)>>
                           \o Tail(readers)

\* A sub-parser is through with its Reader; parsePRE2 then sets r.pos = objEnd
CloseSub ==
    /\ ReaderStep
    /\ TopReader.kind \in {"geoset", "material", "object"}
    /\ readers' = IF TopReader.kind = "object"
                  THEN <<[OuterOf EXCEPT !.pos = (TopReader.base - OuterOf.base)
                                                    + TopReader.size]>>
                       \o Tail(Tail(readers))
                  ELSE Tail(readers)
    /\ UNCHANGED <<readerPc, lastRead>>

\* readBytes, readU16, readU32 of a sub-parser: a field of 1, 2 or 4 bytes
ReadField ==
    /\ ReaderStep
    /\ TopReader.kind \in {"VERS", "geoset", "material", "object"}
    /\ \E n \in {1, 2, 4} :
          IF canRead(TopReader, n)
          THEN /\ lastRead' = ReadAt(TopReader, n)
               /\ readers' = <<Advance(TopReader, n)>> \o Tail(readers)
               /\ UNCHANGED readerPc
          ELSE /\ readerPc' = "failed"
               /\ UNCHANGED <<readers, lastRead>>

\* parseGeoset: "gs.skip(qsizetype(sz))" for a size the geoset gives
SkipField ==
    /\ ReaderStep
    /\ TopReader.kind = "geoset"
    /\ UNCHANGED lastRead
    /\ \E sz \in FieldChoices :
          IF canRead(TopReader, qsizetype(sz))
          THEN /\ readers' = <<Advance(TopReader, qsizetype(sz))>> \o Tail(readers)
               /\ UNCHANGED readerPc
          ELSE /\ readerPc' = "failed"
               /\ UNCHANGED readers

\* LoadFromBytes has read the magic of a file of at least 8 bytes
InitReader ==
    /\ sizeBits \in {32, 64}
    /\ \E n \in BufSizes :
          /\ readers = <<KindReader("file", 0, n, 4)>>
          /\ lastRead = [set |-> TRUE, lo |-> 0, hi |-> 4, within |-> <<[lo |-> 0, hi |-> n]>>]
    /\ readerPc = "run"
    /\ opCount = 0
    /\ DrawIdle
    /\ WindowIdle
    /\ LoadIdle
    /\ seqLens = <<>>
    /\ SampleIdle
    /\ EvalIdle
    /\ viewPc = "idle"
    /\ vbo_ = 0
    /\ skinnedVertices_ = <<>>
    /\ skinCount = 0
    /\ EmitIdle

NextReader ==
    \/ OpenChunk
    \/ CloseChunk
    \/ OpenGeoset
    \/ OpenMaterial
    \/ OpenObject
    \/ CloseSub
    \/ ReadField
    \/ SkipField

SpecReader == InitReader /\ [][NextReader]_vars

\* The range of the input buffer
FileRange == ReaderRanges[Len(readers)]

\* C29: every byte the parser reads lies inside the input buffer and inside
\* the range of every Reader in use at the read, so a byte read while a
\* top-level chunk is handled lies in that chunk's payload; every sub-reader
\* lies inside the Reader it was made from.  This for every size field.
C29_ReadsConfined ==
    readers # <<>> =>
        /\ lastRead.set =>
              /\ 0 <= lastRead.lo /\ lastRead.hi <= FileRange.hi
              /\ \A k \in 1..Len(lastRead.within) :
                    /\ lastRead.within[k].lo <= lastRead.lo
                    /\ lastRead.hi <= lastRead.within[k].hi
        /\ \A k \in 1..(Len(readers) - 1) :
              /\ ReaderRanges[k + 1].lo <= ReaderRanges[k].lo
              /\ ReaderRanges[k].hi <= ReaderRanges[k + 1].hi

----------------------------------------------------------------------------
(* Sampling at the time of a key                                           *)

\* The key times of the track grow strictly
StrictlyIncreasing ==
    \A i \in 1..(Len(track.keys) - 1) : track.keys[i].timeMs < track.keys[i + 1].timeMs

\* A float or vector track without a global sequence, in one of the four
\* interpolation modes, has been sampled
PlainTrackSampled ==
    /\ sampleDone
    /\ trackType \in {"float", "Vec3"}
    /\ track.globalSeqId = -1
    /\ track.interp \in InterpNone..InterpBezier
    /\ StrictlyIncreasing

\* The pair of keys the scan stops at: keys[hi - 1] and keys[hi] of the code
ScanK0 == track.keys[findSegment(track.keys, timeMs, 1)]
ScanK1 == track.keys[findSegment(track.keys, timeMs, 1) + 1]

\* C30: a track with strictly increasing key times and no global sequence,
\* sampled at exactly the time of one of its keys (first, interior or last),
\* gives that key's value in each of the modes None, Linear, Hermite and
\* Bezier; sampled between the first and the last key, the pair (k0, k1) of
\* the scan has k0.time < t <= k1.time and the local parameter is in [0, 1].
C30_KeyTimeGivesKeyValue ==
    PlainTrackSampled =>
        /\ \A i \in 1..Len(track.keys) :
              track.keys[i].timeMs = timeMs => sampled = track.keys[i].value
        /\ (track.keys # <<>> /\ FirstKey.timeMs < timeMs /\ timeMs < LastKey.timeMs) =>
              /\ ScanK0.timeMs < timeMs
              /\ timeMs <= ScanK1.timeMs
              /\ ~RLess(segmentT(ScanK0, ScanK1, timeMs), RInt(0))
              /\ ~RLess(RInt(1), segmentT(ScanK0, ScanK1, timeMs))

====
